---- MODULE Spec2Model ----
(***************************************************************************)
(* A model of CulinaLens: the text normalizer, the receipt/OCR text parser *)
(* and the recipe scoring engine (src/modules/ocr.py,                      *)
(* src/modules/suggestor.py).                                              *)
(*                                                                         *)
(* A Python str is a sequence of code points; a code point is a one        *)
(* character string ("a", ".") or, for the characters that cannot be       *)
(* written in a module, its Unicode name ("U+200D").  A Python value that  *)
(* may or may not be a str is a tagged record: [str |-> s], [none |->      *)
(* TRUE], [int |-> n].  Floats are exact rationals <<numerator,            *)
(* denominator>> in lowest terms.                                          *)
(***************************************************************************)
EXTENDS Integers, Sequences, FiniteSets, TLC

VARIABLES
    \* normalize(text) and normalize(normalize(text))
    norm_pc, norm_text, norm_once, norm_twice,
    \* main.py ALL_RECIPES, and the arguments of a scoring request
    ALL_RECIPES, user_ingredients, preferences,
    \* the last scoring call, the values its loop computed for each recipe of
    \* the corpus, and the list it returned
    call, computed, result,
    \* _plural_to_singular_token(token)
    fold_pc, fold_token, fold_result,
    \* the arguments of a call of parse_text_to_ingredients, its chunks list,
    \* what each chunk appended to its cleaned list, and the list it returned
    parse_pc, raw_text, known_db, parse_chunks, parse_resolved, parse_result,
    \* nutrition.py: the module's table, ingredient name -> per-100g record
    _NUTRITION_DB,
    \* substitutes.py: the module's table, ingredient name -> substitutes
    _SUB_MAP,
    \* a call of calculate_recipe_nutrition: its recipe and what it returned
    nut_pc, nut_recipe, nut_result,
    \* a call of suggest_substitutes: its arguments and what it returned
    sub_pc, sub_missing, sub_available, sub_result,
    \* the loaders: how far the startup sequence of main.py is, and the call
    \* of load_nutrition_from_csv under way (its file, the next row, its
    \* temp_db, and the table as it was when the call began), and the last
    \* loader call that returned (how it ended, and whether it was one of the
    \* calls of the startup sequence)
    boot, load_pc, load_file, load_row, temp_db, load_prev, last_load,
    \* a call of image_to_ingredient_list: what the OCR libraries do for the
    \* image, known_db, and the pair returned
    ocr_pc, ocr_env, ocr_known, ocr_result,
    \* the time score of one recipe time under one max_time
    tf_pc, tf_rec_time, tf_max_time, tf_score,
    \* favorites.py: the preferences file, the last call and its outcome, and
    \* the titles viewed so far, the latest view first
    prefs_file, last_call, viewed

norm_vars == <<norm_pc, norm_text, norm_once, norm_twice>>
rank_vars == <<ALL_RECIPES, user_ingredients, preferences, call, computed, result>>
fold_vars == <<fold_pc, fold_token, fold_result>>
parse_vars == <<parse_pc, raw_text, known_db, parse_chunks, parse_resolved, parse_result>>
table_vars == <<_NUTRITION_DB, _SUB_MAP>>
nut_vars == <<nut_pc, nut_recipe, nut_result>>
earlier_vars == <<norm_vars, rank_vars, fold_vars, parse_vars>>
sub_vars == <<sub_pc, sub_missing, sub_available, sub_result>>
load_vars == <<boot, load_pc, load_file, load_row, temp_db, load_prev, last_load>>
ocr_vars == <<ocr_pc, ocr_env, ocr_known, ocr_result>>
tf_vars == <<tf_pc, tf_rec_time, tf_max_time, tf_score>>
pref_vars == <<prefs_file, last_call, viewed>>
later_vars == <<table_vars, nut_vars, sub_vars, load_vars, ocr_vars, tf_vars, pref_vars>>
vars == <<earlier_vars, later_vars>>

-----------------------------------------------------------------------------
(* Sequences and strings *)

RECURSIVE StrFrom(_, _)
StrFrom(lit, i) ==
    IF i > Len(lit) THEN <<>> ELSE <<SubSeq(lit, i, i)>> \o StrFrom(lit, i + 1)

\* The str whose characters are those of the literal.
Str(lit) == StrFrom(lit, 1)

Range(q) == {q[i] : i \in 1..Len(q)}

RECURSIVE SeqsUpTo(_, _)
SeqsUpTo(S, n) ==
    IF n = 0 THEN {<<>>}
    ELSE LET shorter == SeqsUpTo(S, n - 1)
         IN  shorter \cup {Append(q, c) : q \in {r \in shorter : Len(r) = n - 1}, c \in S}

\* Python values
PyStr(s) == [str |-> s]
PyNone == [none |-> TRUE]
PyInt(n) == [int |-> n]
IsStr(v) == "str" \in DOMAIN v

-----------------------------------------------------------------------------
(* normalize: ocr.py 21-30, suggestor.py 13-22, substitutes.py 12-21 *)

\* [U+200B U+200C U+200D U+FEFF]
NON_PRINTABLE == {"U+200B", "U+200C", "U+200D", "U+FEFF"}

\* What str.strip() and the regex \s take for white space.
WhiteSpace == {" ", "U+0009", "U+000A", "U+000D"}

\* the characters of the second strip: white space, quotes (straight and curly), .,;:()[]
STRIP_CHARS ==
    {" ", "U+0009", "U+000A", "U+000D", "\"", "'", "U+201C", "U+201D", "U+2018",
     "U+2019", ".", ",", ";", ":", "(", ")", "[", "]"}

UpperCase == Str("ABCDEFGHIJKLMNOPQRSTUVWXYZ") \o <<"U+00C9", "U+00C1">>
LowerCase == Str("abcdefghijklmnopqrstuvwxyz") \o <<"U+00E9", "U+00E1">>

\* str.lower() of one code point
LowerChar(c) ==
    IF c \in Range(UpperCase)
    THEN LowerCase[CHOOSE i \in 1..Len(UpperCase) : UpperCase[i] = c]
    ELSE c

\* The canonical composition of a base letter with U+0301 (combining acute).
Composed == [e |-> "U+00E9", E |-> "U+00C9", a |-> "U+00E1", A |-> "U+00C1"]

\* unicodedata.normalize("NFKC", s): U+00A0 is compatibility-equivalent to a
\* space; a base letter directly followed by U+0301 composes; any other code
\* point between the two (U+200D is a starter) blocks the composition.
RECURSIVE NFKC(_)
NFKC(s) ==
    IF s = <<>> THEN <<>>
    ELSE IF Len(s) >= 2 /\ s[2] = "U+0301" /\ s[1] \in DOMAIN Composed
    THEN <<Composed[s[1]]>> \o NFKC(SubSeq(s, 3, Len(s)))
    ELSE <<IF s[1] = "U+00A0" THEN " " ELSE s[1]>> \o NFKC(Tail(s))

\* re.sub of a character class by ""
RemoveAll(s, C) == SelectSeq(s, LAMBDA c : c \notin C)

\* s.replace(old, new) for one-character old
ReplaceChar(s, old, new) == [i \in 1..Len(s) |-> IF s[i] = old THEN new ELSE s[i]]

RECURSIVE LStrip(_, _)
LStrip(s, C) == IF s # <<>> /\ Head(s) \in C THEN LStrip(Tail(s), C) ELSE s

RECURSIVE RStrip(_, _)
RStrip(s, C) ==
    IF s # <<>> /\ s[Len(s)] \in C THEN RStrip(SubSeq(s, 1, Len(s) - 1), C) ELSE s

\* str.strip(chars)
Strip(s, C) == RStrip(LStrip(s, C), C)

\* _MULTI_SPACE_RE.sub(" ", s): every maximal run of white space becomes " "
RECURSIVE CollapseSpace(_)
CollapseSpace(s) ==
    IF s = <<>> THEN <<>>
    ELSE IF Head(s) \in WhiteSpace
    THEN <<" ">> \o CollapseSpace(LStrip(s, WhiteSpace))
    ELSE <<Head(s)>> \o CollapseSpace(Tail(s))

Lower(s) == [i \in 1..Len(s) |-> LowerChar(s[i])]

\* normalize of a str
NormalizeStr(text) ==
    LET s1 == NFKC(text)
        s2 == RemoveAll(s1, NON_PRINTABLE)
        s3 == ReplaceChar(s2, "U+00A0", " ")
        s4 == Strip(s3, WhiteSpace)
        s5 == CollapseSpace(s4)
        s6 == Strip(s5, STRIP_CHARS)
    IN  Lower(s6)

\* normalize of any Python value
normalize(v) == IF ~IsStr(v) THEN <<>> ELSE NormalizeStr(v.str)

-----------------------------------------------------------------------------
(* Floats, as exact rationals <<numerator, denominator>> in lowest terms *)

Abs(n) == IF n < 0 THEN -n ELSE n
Min(a, b) == IF a <= b THEN a ELSE b
Max(a, b) == IF a >= b THEN a ELSE b

RECURSIVE GCD(_, _)
GCD(a, b) == IF b = 0 THEN a ELSE GCD(b, a % b)

\* n / d, for d # 0
Rat(n, d) ==
    LET g == GCD(Abs(n), Abs(d))
        sgn == IF d < 0 THEN -1 ELSE 1
    IN  <<sgn * (n \div g), sgn * (d \div g)>>

RZero == Rat(0, 1)
ROne == Rat(1, 1)
RAdd(x, y) == Rat(x[1] * y[2] + y[1] * x[2], x[2] * y[2])
RSub(x, y) == Rat(x[1] * y[2] - y[1] * x[2], x[2] * y[2])
RMul(x, y) == Rat(x[1] * y[1], x[2] * y[2])
RLess(x, y) == x[1] * y[2] < y[1] * x[2]
RLeq(x, y) == x[1] * y[2] <= y[1] * x[2]
RMax(x, y) == IF RLess(x, y) THEN y ELSE x

\* Python's comparison of two tuples of floats of the same length
RECURSIVE TupleLess(_, _)
TupleLess(a, b) ==
    /\ a # <<>>
    /\ \/ RLess(a[1], b[1])
       \/ a[1] = b[1] /\ TupleLess(Tail(a), Tail(b))

-----------------------------------------------------------------------------
(* Python's order of strs, sorted(), and the stable list.sort() *)

\* The code points in increasing order.
CodePointOrder ==
    <<"U+0009", "U+000A", "U+000D">> \o
    Str(" \"$'()*,-./0123456789:;ABCDEFGHIJKLMNOPQRSTUVWXYZ[]abcdefghijklmnopqrstuvwxyz") \o
    <<"U+00A0", "U+00C1", "U+00C9", "U+00E1", "U+00E9", "U+0301", "U+200B", "U+200C",
      "U+200D", "U+2018", "U+2019", "U+201C", "U+201D", "U+2022", "U+20B9", "U+FEFF">>

Ord(c) == CHOOSE i \in 1..Len(CodePointOrder) : CodePointOrder[i] = c

RECURSIVE StrLess(_, _)
StrLess(a, b) ==
    IF b = <<>> THEN FALSE
    ELSE IF a = <<>> THEN TRUE
    ELSE IF a[1] = b[1] THEN StrLess(Tail(a), Tail(b))
    ELSE Ord(a[1]) < Ord(b[1])

\* sorted(list(S)) for a set S of strs
RECURSIVE Sorted(_)
Sorted(S) ==
    IF S = {} THEN <<>>
    ELSE LET least == CHOOSE x \in S : \A y \in S \ {x} : StrLess(x, y)
         IN  <<least>> \o Sorted(S \ {least})

\* InsertDesc, were the sort not stable: the index goes before the indices
\* with an equal key
InsertDesc_Unstable(sorted, i, keys) ==
    LET before == {k \in 1..Len(sorted) : TupleLess(keys[i], keys[sorted[k]])}
        last == IF before = {} THEN 0 ELSE CHOOSE k \in before : \A j \in before : j <= k
    IN  SubSeq(sorted, 1, last) \o <<i>> \o SubSeq(sorted, last + 1, Len(sorted))

\* Index i put into a list of indices that is in descending order of keys,
\* after every index whose key is not less than its own
InsertDesc(sorted, i, keys) ==
    LET before == {k \in 1..Len(sorted) : ~TupleLess(keys[sorted[k]], keys[i])}
        last == IF before = {} THEN 0 ELSE CHOOSE k \in before : \A j \in before : j <= k
    IN  SubSeq(sorted, 1, last) \o <<i>> \o SubSeq(sorted, last + 1, Len(sorted))

RECURSIVE SortDescFrom(_, _, _)
SortDescFrom(keys, i, acc) ==
    IF i > Len(keys) THEN acc
    ELSE SortDescFrom(keys, i + 1, InsertDesc(acc, i, keys))

\* list.sort(key=..., reverse=True), keys[i] the key of list[i]: descending,
\* and stable (elements with equal keys keep the order they had)
SortDesc(list, keys) ==
    LET order == SortDescFrom(keys, 1, <<>>)
    IN  [k \in 1..Len(list) |-> list[order[k]]]

\* list[:n]
Slice(list, n) ==
    IF n >= 0 THEN SubSeq(list, 1, Min(n, Len(list)))
    ELSE SubSeq(list, 1, Max(0, Len(list) + n))

\* sub in s, for strs
IsSubstring(sub, s) ==
    \E i \in 0..(Len(s) - Len(sub)) : SubSeq(s, i + 1, i + Len(sub)) = sub

\* v or default
OrElse(v, default) ==
    IF \/ "none" \in DOMAIN v
       \/ IsStr(v) /\ v.str = <<>>
       \/ "int" \in DOMAIN v /\ v.int = 0
    THEN default ELSE v

\* d.get(key, default), for a dict d
Get(d, key, default) == IF key \in DOMAIN d THEN d[key] ELSE default

-----------------------------------------------------------------------------
(* suggestor.py: load_recipes *)

NormalizeEach(list) == [i \in 1..Len(list) |-> normalize(list[i])]

\* One record of the recipes file, as load_recipes normalizes it (a file
\* record is a dict; its lists hold Python values, its numbers are ints).
LoadRecord(rec) ==
    [title |-> Get(rec, "title", "Untitled Recipe"),
     ingredients |-> NormalizeEach(Get(rec, "ingredients", <<>>)),
     steps |-> Get(rec, "steps", <<>>),
     image_url |-> Get(rec, "image_url", ""),
     cuisine |-> normalize(OrElse(Get(rec, "cuisine", PyNone), PyStr(<<>>))),
     diet |-> NormalizeEach(Get(rec, "diet", <<>>)),
     time |-> Get(rec, "time", Get(rec, "cook_time", 0)),
     skill |-> normalize(Get(rec, "skill", PyStr(Str("intermediate")))),
     servings |-> IF Get(rec, "servings", 1) = 0 THEN 1 ELSE Get(rec, "servings", 1),
     taste_tags |-> NormalizeEach(Get(rec, "taste_tags", <<>>))]

\* load_recipes(file_path), for the list of records the file holds
load_recipes(data) == [i \in 1..Len(data) |-> LoadRecord(data[i])]

-----------------------------------------------------------------------------
(* suggestor.py: advanced_suggest_recipes *)

\* The weights w
w_ingredient == Rat(55, 100)
w_cuisine == Rat(12, 100)
w_taste == Rat(8, 100)
w_diet == Rat(8, 100)
w_time == Rat(5, 100)
w_skill == Rat(2, 100)
w_missing_penalty == Rat(20, 100)

\* preferences.get(key, default), preferences = None read as {}
PrefGet(prefs, key, default) ==
    IF "none" \in DOMAIN prefs THEN default ELSE Get(prefs, key, default)

\* prefs_cuisine, prefs_taste, prefs_diet, prefs_allergies, prefs_max_time and
\* prefs_skill, read from preferences before the loop
ReadPreferences(prefs) ==
    [cuisine |-> normalize(OrElse(PrefGet(prefs, "cuisine", PyNone), PyStr(<<>>))),
     taste |-> normalize(OrElse(PrefGet(prefs, "taste", PyNone), PyStr(<<>>))),
     diet |-> normalize(OrElse(PrefGet(prefs, "diet", PyNone), PyStr(<<>>))),
     allergies |->
        LET given == PrefGet(prefs, "allergies", <<>>)
        IN  IF Len(given) > 0 THEN {normalize(x) : x \in Range(given)} ELSE {},
     max_time |-> PrefGet(prefs, "max_time", 0),
     skill |-> normalize(OrElse(PrefGet(prefs, "skill_level", PyNone),
                                PyStr(Str("intermediate"))))]

\* set(normalize(i) for i in user_ingredients if normalize(i))
user_set(ingredients) ==
    {normalize(i) : i \in Range(ingredients)} \ {<<>>}

\* AllergySkip, were the test "allerg == ing" instead of "allerg in ing"
AllergySkip_ExactMatch(recipe_ings, allergies) ==
    \E allerg \in allergies : allerg # <<>> /\ allerg \in recipe_ings

\* The allergy filter: skip
AllergySkip(recipe_ings, allergies) ==
    \E allerg \in allergies :
        /\ allerg # <<>>
        /\ \E ing \in recipe_ings : IsSubstring(allerg, ing)

_skill_to_rank(skill) ==
    LET s == Lower(skill)
    IN  IF s = Str("beginner") THEN 1
        ELSE IF s = Str("intermediate") THEN 2
        ELSE IF s = Str("expert") THEN 3
        ELSE 2

_safe_div(a, b) == IF b # 0 THEN Rat(a, b) ELSE RZero

cuisine_score(recipe, prefs) ==
    IF prefs.cuisine # <<>>
    THEN (IF prefs.cuisine = Lower(recipe.cuisine) THEN ROne ELSE RZero)
    ELSE ROne

taste_score(recipe, prefs) ==
    IF prefs.taste # <<>>
    THEN (IF prefs.taste \in Range(recipe.taste_tags) THEN ROne ELSE RZero)
    ELSE ROne

diet_score(recipe, prefs) ==
    IF prefs.diet # <<>>
    THEN (IF prefs.diet \in {Lower(d) : d \in Range(recipe.diet)} THEN ROne ELSE RZero)
    ELSE ROne

\* time_score, were the overrun divided by prefs_max_time itself
time_score_RawDivisor(recipe, prefs) ==
    IF prefs.max_time # 0 /\ recipe.time # 0
    THEN RMax(RZero, RSub(ROne, Rat(Max(0, recipe.time - prefs.max_time), prefs.max_time)))
    ELSE ROne

time_score(recipe, prefs) ==
    LET rec_time == recipe.time
        max_time == prefs.max_time
    IN  IF max_time # 0 /\ rec_time # 0
        THEN RMax(RZero, RSub(ROne, Rat(Max(0, rec_time - max_time), Max(1, max_time))))
        ELSE ROne

skill_score(recipe, prefs) ==
    LET user_skill_rank == _skill_to_rank(prefs.skill)
        recipe_skill_rank == _skill_to_rank(recipe.skill)
    IN  IF user_skill_rank >= recipe_skill_rank THEN ROne
        ELSE _safe_div(user_skill_rank, recipe_skill_rank)

\* TotalRequired, were the ingredient list counted instead of the set
TotalRequired_ListLength(recipe) ==
    IF Len(recipe.ingredients) = 0 THEN 1 ELSE Len(recipe.ingredients)

\* recipe_ings = set(recipe.get("ingredients", [])); total = len(recipe_ings) or 1
TotalRequired(recipe) ==
    LET recipe_ings == Range(recipe.ingredients)
    IN  IF Cardinality(recipe_ings) = 0 THEN 1 ELSE Cardinality(recipe_ings)

\* match_ratio = match_count / total
MatchRatio(matched, total) == Rat(Len(matched), total)

\* missing_pen = (len(missing) / total) if total else 0.0
MissingPenalty(missing, total) == IF total # 0 THEN Rat(Len(missing), total) ELSE RZero

\* RawScore, were the missing penalty added instead of subtracted
RawScore_PenaltyAdded(match_ratio, missing_pen, recipe, prefs) ==
    RAdd(RAdd(RMul(w_ingredient, match_ratio),
         RAdd(RMul(w_cuisine, cuisine_score(recipe, prefs)),
         RAdd(RMul(w_taste, taste_score(recipe, prefs)),
         RAdd(RMul(w_diet, diet_score(recipe, prefs)),
         RAdd(RMul(w_time, time_score(recipe, prefs)),
              RMul(w_skill, skill_score(recipe, prefs))))))),
         RMul(w_missing_penalty, missing_pen))

\* raw_score
RawScore(match_ratio, missing_pen, recipe, prefs) ==
    RSub(RAdd(RMul(w_ingredient, match_ratio),
         RAdd(RMul(w_cuisine, cuisine_score(recipe, prefs)),
         RAdd(RMul(w_taste, taste_score(recipe, prefs)),
         RAdd(RMul(w_diet, diet_score(recipe, prefs)),
         RAdd(RMul(w_time, time_score(recipe, prefs)),
              RMul(w_skill, skill_score(recipe, prefs))))))),
         RMul(w_missing_penalty, missing_pen))

\* ScoreExcluded, were the test "raw_score < 0.0"
ScoreExcluded_Strict(raw_score) == RLess(raw_score, RZero)

\* if raw_score <= 0.0: continue
ScoreExcluded(raw_score) == RLeq(raw_score, RZero)

\* One iteration of the loop over recipes: what it computes for the recipe
\* (skip: the allergy filter excluded it before anything was computed;
\* kept: an entry was appended to out).
ScoreRecipe(recipe, users, prefs) ==
    LET recipe_ings == Range(recipe.ingredients)
        skip == AllergySkip(recipe_ings, prefs.allergies)
        total == TotalRequired(recipe)
        matched == Sorted(users \cap recipe_ings)
        missing == Sorted(recipe_ings \ users)
        match_ratio == MatchRatio(matched, total)
        raw_score == RawScore(match_ratio, MissingPenalty(missing, total), recipe, prefs)
    IN  IF skip THEN [title |-> recipe.title, skip |-> TRUE, kept |-> FALSE]
        ELSE [title |-> recipe.title, skip |-> FALSE,
              kept |-> ~ScoreExcluded(raw_score),
              raw_score |-> raw_score,
              entry |-> [title |-> recipe.title,
                         image_url |-> recipe.image_url,
                         score |-> raw_score,
                         matched |-> matched,
                         missing |-> missing,
                         match_ratio |-> match_ratio,
                         match_count |-> Len(matched),
                         total_required |-> total,
                         ingredients |-> recipe_ings,
                         steps |-> recipe.steps,
                         meta |-> [cuisine |-> recipe.cuisine, diet |-> recipe.diet,
                                   time |-> recipe.time, skill |-> recipe.skill,
                                   servings |-> recipe.servings,
                                   taste_tags |-> recipe.taste_tags]]]

\* The loop over recipes: one record per recipe, in corpus order
ScoreAll(recipes, users, prefs) ==
    [i \in 1..Len(recipes) |-> ScoreRecipe(recipes[i], users, prefs)]

RECURSIVE KeptEntries(_, _)
KeptEntries(scored, i) ==
    IF i > Len(scored) THEN <<>>
    ELSE (IF scored[i].kept THEN <<scored[i].entry>> ELSE <<>>) \o KeptEntries(scored, i + 1)

\* key=lambda r: (r["score"], r["match_ratio"], r["match_count"])
AdvancedKey(r) == <<r.score, r.match_ratio, Rat(r.match_count, 1)>>

\* out.sort(key=..., reverse=True)
SortOut(out) == SortDesc(out, [i \in 1..Len(out) |-> AdvancedKey(out[i])])

\* return out[:top_n]
Truncate(out, top_n) == Slice(out, top_n)

\* AdvancedResult, were out truncated before it is sorted
AdvancedResult_TruncateFirst(scored, top_n) ==
    SortOut(Truncate(KeptEntries(scored, 1), top_n))

\* What the call returns, given what its loop computed
AdvancedResult(scored, top_n) == Truncate(SortOut(KeptEntries(scored, 1)), top_n)

\* The loop of advanced_suggest_recipes, given the preferences argument
AdvancedLoop(ingredients, recipes, given) ==
    ScoreAll(recipes, user_set(ingredients), ReadPreferences(given))

advanced_suggest_recipes(ingredients, recipes, given, top_n) ==
    AdvancedResult(AdvancedLoop(ingredients, recipes, given), top_n)

-----------------------------------------------------------------------------
(* suggestor.py: suggest_recipes *)

\* if total == 0: continue
SimpleSkip(recipe_set) == Cardinality(recipe_set) = 0

\* MeetsThreshold, were the test "ratio > threshold"
MeetsThreshold_Strict(ratio, threshold) == RLess(threshold, ratio)

\* if ratio >= threshold
MeetsThreshold(ratio, threshold) == RLeq(threshold, ratio)

SimpleEntry(recipe, users) ==
    LET recipe_set == Range(recipe.ingredients)
        total == Cardinality(recipe_set)
        matched == Sorted(users \cap recipe_set)
        missing == Sorted(recipe_set \ users)
    IN  [title |-> recipe.title,
         image_url |-> recipe.image_url,
         match_count |-> Len(matched),
         total_required |-> total,
         match_ratio |-> Rat(Len(matched), total),
         matched |-> matched,
         missing |-> missing,
         ingredients |-> recipe_set,
         steps |-> recipe.steps]

RECURSIVE SimpleEntries(_, _, _, _)
SimpleEntries(recipes, users, threshold, i) ==
    IF i > Len(recipes) THEN <<>>
    ELSE (IF SimpleSkip(Range(recipes[i].ingredients)) THEN <<>>
          ELSE IF MeetsThreshold(SimpleEntry(recipes[i], users).match_ratio, threshold)
          THEN <<SimpleEntry(recipes[i], users)>>
          ELSE <<>>)
         \o SimpleEntries(recipes, users, threshold, i + 1)

\* key=lambda x: (x["match_ratio"], x["match_count"])
SimpleKey(x) == <<x.match_ratio, Rat(x.match_count, 1)>>

suggest_recipes(ingredients, recipes, threshold) ==
    LET suggestions == SimpleEntries(recipes, user_set(ingredients), threshold, 1)
    IN  SortDesc(suggestions, [i \in 1..Len(suggestions) |-> SimpleKey(suggestions[i])])

-----------------------------------------------------------------------------
(* ocr.py: the vocabulary *)

StrSet(lits) == {Str(lit) : lit \in lits}

KNOWN_INGREDIENTS_BASE ==
    StrSet({"eggs", "onion", "tomato", "green chili", "salt", "pepper", "oil",
            "potato", "wheat flour", "chili powder", "ghee", "coriander",
            "bread", "peanut butter",
            "garlic", "ginger", "butter", "milk", "sugar", "turmeric", "cumin",
            "cilantro", "spinach", "cheddar cheese", "olive oil", "chicken breast",
            "green chilli", "green chilies", "green chillies"})

STOPWORDS ==
    StrSet({"mrp", "amount", "subtotal", "tax", "total", "balance", "cash", "tender",
            "qty", "quantity", "price", "rs", "usd", "inr", "each", "pcs", "pc",
            "kg", "g", "gm", "gram", "grams", "ml", "l", "ltr", "litre", "liter",
            "bottle", "pack", "dozen", "net", "wt", "weight", "discount", "saved"})

\* PLURAL_MAP, as the set of its (key, value) pairs
PLURAL_MAP ==
    {<<Str(p[1]), Str(p[2])>> : p \in
        {<<"tomatoes", "tomato">>,
         <<"potatoes", "potato">>,
         <<"chilies", "chili">>,
         <<"chillies", "chili">>,
         <<"green chilli", "green chili">>,
         <<"green chilies", "green chili">>,
         <<"green chillies", "green chili">>,
         <<"chillie", "chili">>,
         <<"olive oils", "olive oil">>,
         <<"breads", "bread">>,
         <<"peppers", "pepper">>,
         <<"corriander", "coriander">>,
         <<"egg", "eggs">>}}

PluralKeys == {p[1] : p \in PLURAL_MAP}

\* token.endswith(suffix)
EndsWith(token, suffix) ==
    /\ Len(token) >= Len(suffix)
    /\ SubSeq(token, Len(token) - Len(suffix) + 1, Len(token)) = suffix

_plural_to_singular_token(token) ==
    IF token \in PluralKeys
    THEN (CHOOSE p \in PLURAL_MAP : p[1] = token)[2]
    ELSE IF EndsWith(token, Str("ies")) /\ Len(token) > 3
    THEN SubSeq(token, 1, Len(token) - 3) \o Str("y")
    ELSE IF EndsWith(token, Str("s")) /\ ~EndsWith(token, Str("ss"))
    THEN SubSeq(token, 1, Len(token) - 1)
    ELSE token

-----------------------------------------------------------------------------
(* ocr.py: the regular expressions of _strip_units_prices_noise.  A match    *)
(* operator gives, for a str s and a position i, the position after the     *)
(* match that starts at i, or 0 when the expression does not match there.   *)

Digit == Range(Str("0123456789"))
Letter == Range(Str("abcdefghijklmnopqrstuvwxyzABCDEFGHIJKLMNOPQRSTUVWXYZ"))
            \cup {"U+00C1", "U+00C9", "U+00E1", "U+00E9"}
\* \w
WordChar == Letter \cup Digit \cup {"_"}

At(s, i) == IF i >= 1 /\ i <= Len(s) THEN s[i] ELSE "end"

\* The position after the longest run of characters of C that starts at i
RECURSIVE RunEnd(_, _, _)
RunEnd(s, i, C) == IF At(s, i) \in C THEN RunEnd(s, i + 1, C) ELSE i

\* \b at position i (between s[i-1] and s[i])
Boundary(s, i) == (At(s, i - 1) \in WordChar) # (At(s, i) \in WordChar)

\* lit matches at i, ignoring case
StartsWithAt(s, i, lit) ==
    /\ i >= 1
    /\ i + Len(lit) - 1 <= Len(s)
    /\ Lower(SubSeq(s, i, i + Len(lit) - 1)) = lit

\* (?:[.,]\d+)? or (?:\.\d+)? after the digits that end before d
FractionEnd(s, d, points) ==
    IF At(s, d) \in points /\ RunEnd(s, d + 1, Digit) > d + 1
    THEN RunEnd(s, d + 1, Digit) ELSE d

\* (?:rs\.?|U+20B9|\$|usd|inr), in the order the expression tries them
Currencies == <<Str("rs."), Str("rs"), <<"U+20B9">>, Str("$"), Str("usd"), Str("inr")>>

\* PRICE_RE: a currency, \s*\d+(?:[.,]\d+)?, or else \b\d+[.,]\d{2}\b
PriceEnd(s, i) ==
    LET AmountEnd(currency) ==
            IF ~StartsWithAt(s, i, currency) THEN 0
            ELSE LET sp == RunEnd(s, i + Len(currency), WhiteSpace)
                     d == RunEnd(s, sp, Digit)
                 IN  IF d > sp THEN FractionEnd(s, d, {".", ","}) ELSE 0
        found == {k \in 1..Len(Currencies) : AmountEnd(Currencies[k]) > 0}
        e == RunEnd(s, i, Digit)
    IN  IF found # {}
        THEN AmountEnd(Currencies[CHOOSE k \in found : \A l \in found : k <= l])
        ELSE IF /\ Boundary(s, i)
                /\ e > i
                /\ At(s, e) \in {".", ","}
                /\ At(s, e + 1) \in Digit
                /\ At(s, e + 2) \in Digit
                /\ Boundary(s, e + 3)
        THEN e + 3
        ELSE 0

\* (?:kg|g|gm|grams?|ml|l|liters?|litres?|pcs?|pc|pack|dozen)
QtyUnits ==
    StrSet({"kg", "g", "gm", "gram", "grams", "ml", "l", "liter", "liters", "litre",
            "litres", "pc", "pcs", "pack", "dozen"})

\* \d+(?:\.\d+)?\s* from q: the position of the unit, or 0
QuantityEnd(s, q) ==
    LET d == RunEnd(s, q, Digit)
    IN  IF d > q THEN RunEnd(s, FractionEnd(s, d, {"."}), WhiteSpace) ELSE 0

\* QTY_UNIT_RE: the first alternative starts at ^ or with a \s, the second
\* at a \b before the digits
QtyUnitEnd(s, i) ==
    LET \* a unit at u that is followed by \b
        UnitWordEnd(u) ==
            LET e == RunEnd(s, u, WordChar)
            IN  IF u >= 1 /\ Lower(SubSeq(s, u, e - 1)) \in QtyUnits THEN e ELSE 0
        \* a unit at u that is followed by $ or \s (which is part of the match)
        UnitSpaceEnd(u) ==
            LET e == RunEnd(s, u, Letter)
            IN  IF u >= 1 /\ Lower(SubSeq(s, u, e - 1)) \in QtyUnits
                   /\ (e = Len(s) + 1 \/ At(s, e) \in WhiteSpace)
                THEN Min(e + 1, Len(s) + 1) ELSE 0
        \* (?:x\s*)?\d+(?:\.\d+)?\s*unit\b from p
        TimesQuantityEnd(p) ==
            LET q == IF StartsWithAt(s, p, Str("x"))
                     THEN RunEnd(s, p + 1, WhiteSpace) ELSE p
                u == QuantityEnd(s, q)
            IN  IF u > 0 THEN UnitWordEnd(u) ELSE 0
    IN  IF i = 1 /\ TimesQuantityEnd(i) > 0 THEN TimesQuantityEnd(i)
        ELSE IF At(s, i) \in WhiteSpace /\ TimesQuantityEnd(i + 1) > 0
        THEN TimesQuantityEnd(i + 1)
        ELSE IF Boundary(s, i) /\ QuantityEnd(s, i) > 0
        THEN UnitSpaceEnd(QuantityEnd(s, i))
        ELSE 0

\* (?:cups?|cup|tsp|tsps|teaspoons?|tbsp|tbsps|tablespoons?)
KitchenUnits ==
    StrSet({"cup", "cups", "tsp", "tsps", "teaspoon", "teaspoons", "tbsp", "tbsps",
            "tablespoon", "tablespoons"})

\* (?:\d+\s*\d*/\d+|\d+(?:\.\d+)?|\d*/\d+)
IsKitchenNumber(t) ==
    LET IsDigits(u) == u # <<>> /\ Range(u) \subseteq Digit
    IN  \/ IsDigits(t)
        \/ \E p \in 1..Len(t) :
            /\ t[p] = "."
            /\ IsDigits(SubSeq(t, 1, p - 1))
            /\ IsDigits(SubSeq(t, p + 1, Len(t)))
        \/ \E p \in 1..Len(t) :
            /\ t[p] = "/"
            /\ IsDigits(SubSeq(t, p + 1, Len(t)))
            /\ LET d1 == RunEnd(t, 1, Digit)
                   s1 == RunEnd(t, d1, WhiteSpace)
                   d2 == RunEnd(t, s1, Digit)
               IN  d2 = p /\ (s1 > d1 => d1 > 1)

\* LEADING_KITCHEN_UNITS_RE, which matches at the start of s only: the
\* position after the match, or 0
KitchenEnd(s) ==
    LET r == RunEnd(s, 1, WhiteSpace)
        u == RunEnd(s, r, Digit \cup WhiteSpace \cup {"/", "."})
        number == RStrip(SubSeq(s, r, u - 1), WhiteSpace)
        e == RunEnd(s, u, WordChar)
    IN  IF /\ number = <<>> \/ IsKitchenNumber(number)
           /\ Lower(SubSeq(s, u, e - 1)) \in KitchenUnits
        THEN e ELSE 0

\* \([^)]*\)
ParenEnd(s, i) ==
    IF At(s, i) = "(" /\ \E j \in (i + 1)..Len(s) : s[j] = ")"
    THEN 1 + CHOOSE j \in (i + 1)..Len(s) :
                /\ s[j] = ")"
                /\ \A k \in (i + 1)..(j - 1) : s[k] # ")"
    ELSE 0

\* \b\d+(?:\.\d+)?\b
NumberEnd(s, i) ==
    LET d == RunEnd(s, i, Digit)
        f == FractionEnd(s, d, {"."})
    IN  IF ~(Boundary(s, i) /\ d > i) THEN 0
        ELSE IF f > d /\ Boundary(s, f) THEN f
        ELSE IF Boundary(s, d) THEN d
        ELSE 0

\* PATTERN.sub(" ", s), from position i on
RECURSIVE SubPrice(_, _)
SubPrice(s, i) ==
    IF i > Len(s) THEN <<>>
    ELSE IF PriceEnd(s, i) > 0 THEN <<" ">> \o SubPrice(s, PriceEnd(s, i))
    ELSE <<s[i]>> \o SubPrice(s, i + 1)

RECURSIVE SubQtyUnit(_, _)
SubQtyUnit(s, i) ==
    IF i > Len(s) THEN <<>>
    ELSE IF QtyUnitEnd(s, i) > 0 THEN <<" ">> \o SubQtyUnit(s, QtyUnitEnd(s, i))
    ELSE <<s[i]>> \o SubQtyUnit(s, i + 1)

SubKitchen(s) ==
    IF KitchenEnd(s) > 0 THEN <<" ">> \o SubSeq(s, KitchenEnd(s), Len(s)) ELSE s

RECURSIVE SubParen(_, _)
SubParen(s, i) ==
    IF i > Len(s) THEN <<>>
    ELSE IF ParenEnd(s, i) > 0 THEN <<" ">> \o SubParen(s, ParenEnd(s, i))
    ELSE <<s[i]>> \o SubParen(s, i + 1)

RECURSIVE SubNumber(_, _)
SubNumber(s, i) ==
    IF i > Len(s) THEN <<>>
    ELSE IF NumberEnd(s, i) > 0 THEN <<" ">> \o SubNumber(s, NumberEnd(s, i))
    ELSE <<s[i]>> \o SubNumber(s, i + 1)

\* The substitutions, the last one first; LEADING_BULLETS_RE is one or more
\* of - U+2022 * at the start
_strip_units_prices_noise(s) ==
    Strip(CollapseSpace(
        SubNumber(
            SubParen(
                SubKitchen(
                    SubQtyUnit(
                        SubPrice(Strip(LStrip(s, {"-", "U+2022", "*"}), WhiteSpace), 1),
                        1)),
                1),
            1)),
        WhiteSpace)

-----------------------------------------------------------------------------
(* difflib: SequenceMatcher and get_close_matches, for sequences shorter    *)
(* than the 200 elements at which the automatic junk heuristic starts       *)

\* The length of the longest common prefix of a[i..ahi] and b[j..bhi]
RECURSIVE CommonPrefix(_, _, _, _, _, _)
CommonPrefix(a, b, i, j, ahi, bhi) ==
    IF i <= ahi /\ j <= bhi /\ a[i] = b[j]
    THEN 1 + CommonPrefix(a, b, i + 1, j + 1, ahi, bhi)
    ELSE 0

\* find_longest_match: <<i, j, k>> with a[i..i+k-1] = b[j..j+k-1], k the
\* largest possible, then i the smallest, then j the smallest
find_longest_match(a, b, alo, ahi, blo, bhi) ==
    LET cells == (alo..ahi) \X (blo..bhi)
        size == [c \in cells |-> CommonPrefix(a, b, c[1], c[2], ahi, bhi)]
        k == CHOOSE n \in {size[c] : c \in cells} : \A c \in cells : size[c] <= n
        i == CHOOSE x \in alo..ahi :
                /\ \E y \in blo..bhi : size[<<x, y>>] = k
                /\ \A c \in cells : size[c] = k => x <= c[1]
        j == CHOOSE y \in blo..bhi :
                /\ size[<<i, y>>] = k
                /\ \A z \in blo..bhi : size[<<i, z>>] = k => y <= z
    IN  IF cells = {} THEN <<alo, blo, 0>> ELSE <<i, j, k>>

\* The sum of the sizes of get_matching_blocks
RECURSIVE MatchingSize(_, _, _, _, _, _)
MatchingSize(a, b, alo, ahi, blo, bhi) ==
    IF alo > ahi \/ blo > bhi THEN 0
    ELSE LET m == find_longest_match(a, b, alo, ahi, blo, bhi)
         IN  IF m[3] = 0 THEN 0
             ELSE m[3]
                  + MatchingSize(a, b, alo, m[1] - 1, blo, m[2] - 1)
                  + MatchingSize(a, b, m[1] + m[3], ahi, m[2] + m[3], bhi)

\* _calculate_ratio, as an exact fraction
_calculate_ratio(matches, length) ==
    IF length > 0 THEN Rat(2 * matches, length) ELSE ROne

ratio(a, b) ==
    _calculate_ratio(MatchingSize(a, b, 1, Len(a), 1, Len(b)), Len(a) + Len(b))

\* quick_ratio: an element of a counts while b has occurrences of it left
quick_ratio(a, b) ==
    LET Count(s, c) == Cardinality({i \in 1..Len(s) : s[i] = c})
    IN  _calculate_ratio(
            Cardinality({i \in 1..Len(a) :
                            Count(SubSeq(a, 1, i), a[i]) <= Count(b, a[i])}),
            Len(a) + Len(b))

real_quick_ratio(a, b) == _calculate_ratio(Min(Len(a), Len(b)), Len(a) + Len(b))

\* get_close_matches(word, possibilities, n=1, cutoff=0.84): the best
\* (score, x) pair, as a sequence of at most one str
\* The three tests of a possibility x against the cutoff
IsClose(x, word, cutoff) ==
    /\ RLeq(cutoff, real_quick_ratio(x, word))
    /\ RLeq(cutoff, quick_ratio(x, word))
    /\ RLeq(cutoff, ratio(x, word))

\* heapq.nlargest(1, result): the largest (score, x) pair of those that
\* are close
BestMatch(word, close) ==
    IF close = {} THEN <<>>
    ELSE <<CHOOSE x \in close : \A y \in close :
                \/ y = x
                \/ RLess(ratio(y, word), ratio(x, word))
                \/ ratio(y, word) = ratio(x, word) /\ StrLess(y, x)>>

get_close_matches(word, possibilities) ==
    BestMatch(word, {x \in possibilities : IsClose(x, word, Rat(84, 100))})

-----------------------------------------------------------------------------
(* ocr.py: parse_text_to_ingredients *)

\* str.splitlines(): the lines of s from position i on, cur the line so far
RECURSIVE SplitLinesFrom(_, _, _)
SplitLinesFrom(s, i, cur) ==
    IF i > Len(s) THEN (IF cur = <<>> THEN <<>> ELSE <<cur>>)
    ELSE IF s[i] = "U+000D" /\ At(s, i + 1) = "U+000A"
    THEN <<cur>> \o SplitLinesFrom(s, i + 2, <<>>)
    ELSE IF s[i] \in {"U+000A", "U+000D"} THEN <<cur>> \o SplitLinesFrom(s, i + 1, <<>>)
    ELSE SplitLinesFrom(s, i + 1, Append(cur, s[i]))

\* re.split(PATTERN, s) where PATTERN is one or more characters of C
RECURSIVE SplitRunsFrom(_, _, _, _)
SplitRunsFrom(s, i, cur, C) ==
    IF i > Len(s) THEN <<cur>>
    ELSE IF s[i] \in C THEN <<cur>> \o SplitRunsFrom(s, RunEnd(s, i, C), <<>>, C)
    ELSE SplitRunsFrom(s, i + 1, Append(cur, s[i]), C)

\* str.replace(old, new), from position i on
RECURSIVE ReplaceFrom(_, _, _, _)
ReplaceFrom(s, i, old, new) ==
    IF i > Len(s) THEN <<>>
    ELSE IF i + Len(old) - 1 <= Len(s) /\ SubSeq(s, i, i + Len(old) - 1) = old
    THEN new \o ReplaceFrom(s, i + Len(old), old, new)
    ELSE <<s[i]>> \o ReplaceFrom(s, i + 1, old, new)

\* " ".join(tokens)
RECURSIVE JoinSpace(_)
JoinSpace(tokens) ==
    IF tokens = <<>> THEN <<>>
    ELSE IF Len(tokens) = 1 THEN tokens[1]
    ELSE tokens[1] \o <<" ">> \o JoinSpace(Tail(tokens))

\* The concatenation of a sequence of sequences
RECURSIVE Flatten(_)
Flatten(lists) == IF lists = <<>> THEN <<>> ELSE Head(lists) \o Flatten(Tail(lists))

_drop_stopwords_tokens(tokens) ==
    SelectSeq(tokens, LAMBDA t : t # <<>> /\ t \notin STOPWORDS /\ Len(t) > 1)

\* known, for a known_db that is None or a set of str
KnownBase == {NormalizeStr(k) : k \in KNOWN_INGREDIENTS_BASE}
Known(db) ==
    IF db = PyNone \/ db.set = {} THEN KnownBase
    ELSE KnownBase \cup {normalize(k) : k \in db.set}

\* s of a chunk after _strip_units_prices_noise, empty for a chunk that
\* is skipped
StripChunk(s) == IF s = <<>> THEN <<>> ELSE _strip_units_prices_noise(s)

\* for chunk in pieces, from the i-th piece on: s of each chunk
RECURSIVE ChunksOfPieces(_, _)
ChunksOfPieces(pieces, i) ==
    IF i > Len(pieces) THEN <<>>
    ELSE <<StripChunk(NormalizeStr(pieces[i]))>> \o ChunksOfPieces(pieces, i + 1)

\* for line in lines, from the i-th line on, the pieces of a line being
\* re.split(r"[,\;]+", line)
RECURSIVE ChunksOfLines(_, _)
ChunksOfLines(lines, i) ==
    IF i > Len(lines) THEN <<>>
    ELSE ChunksOfPieces(SplitRunsFrom(lines[i], 1, <<>>, {",", ";"}), 1)
            \o ChunksOfLines(lines, i + 1)

\* The chunks list: the normalized, noise-stripped chunks of the text that
\* are not empty
Chunks(text) ==
    SelectSeq(ChunksOfLines(SplitLinesFrom(text, 1, <<>>), 1), LAMBDA s : s # <<>>)

\* cand of one chunk
Candidate(ch) ==
    LET \* ch.split()
        Words(replaced) ==
            SelectSeq(SplitRunsFrom(replaced, 1, <<>>, WhiteSpace), LAMBDA t : t # <<>>)
        Tokens(words) ==
            _drop_stopwords_tokens([k \in 1..Len(words) |-> NormalizeStr(words[k])])
        Folded(tokens) ==
            IF tokens = <<>> THEN <<>>
            ELSE NormalizeStr(JoinSpace([k \in 1..Len(tokens) |->
                                            _plural_to_singular_token(tokens[k])]))
    IN  Folded(Tokens(Words(ReplaceFrom(ch, 1, Str("chilli"), Str("chili")))))

\* re.fullmatch(r"[a-z][a-z\s]+", cand) and len(cand) >= 3
LooksLikeName(cand) ==
    LET az == Range(Str("abcdefghijklmnopqrstuvwxyz"))
    IN  /\ Len(cand) >= 2
        /\ cand[1] \in az
        /\ \A k \in 2..Len(cand) : cand[k] \in az \cup WhiteSpace
        /\ Len(cand) >= 3

\* What a candidate that is not known appends to cleaned, match being its
\* close matches
MatchOrName(cand, match) ==
    IF match # <<>> THEN <<match[1]>>
    ELSE IF LooksLikeName(cand) THEN <<cand>>
    ELSE <<>>

\* What a candidate appends to cleaned
ResolveCandidate(cand, known) ==
    IF cand = <<>> \/ cand \in STOPWORDS THEN <<>>
    ELSE IF cand \in known THEN <<cand>>
    ELSE MatchOrName(cand, get_close_matches(cand, known))

\* What one chunk appends to cleaned: a sequence of at most one name
Resolve(ch, known) == ResolveCandidate(Candidate(ch), known)

\* for ch in chunks, from the i-th chunk on: what each chunk appended
RECURSIVE ResolveFrom(_, _, _)
ResolveFrom(chunks, i, known) ==
    IF i > Len(chunks) THEN <<>>
    ELSE <<Resolve(chunks[i], known)>> \o ResolveFrom(chunks, i + 1, known)

\* The loop over cleaned that keeps the last occurrence of a name
RECURSIVE Dedupe_KeepLast(_, _, _, _)
Dedupe_KeepLast(cleaned, i, seen, result_) ==
    IF i > Len(cleaned) THEN result_
    ELSE IF \E k \in (i + 1)..Len(cleaned) : cleaned[k] = cleaned[i]
    THEN Dedupe_KeepLast(cleaned, i + 1, seen, result_)
    ELSE Dedupe_KeepLast(cleaned, i + 1, seen, Append(result_, cleaned[i]))

\* The loop over cleaned: seen and result after the elements from i on
RECURSIVE Dedupe(_, _, _, _)
Dedupe(cleaned, i, seen, result_) ==
    IF i > Len(cleaned) THEN result_
    ELSE IF cleaned[i] \notin seen
    THEN Dedupe(cleaned, i + 1, seen \cup {cleaned[i]}, Append(result_, cleaned[i]))
    ELSE Dedupe(cleaned, i + 1, seen, result_)

\* The second and third loop: what each chunk appended to cleaned (cleaned
\* is these, joined), and the list returned
ParseResolved(chunks, resolved) ==
    [chunks |-> chunks,
     resolved |-> resolved,
     result |-> Dedupe(Flatten(resolved), 1, {}, <<>>)]

ParseChunks(chunks, known) == ParseResolved(chunks, ResolveFrom(chunks, 1, known))

\* A call of parse_text_to_ingredients: its chunks list, what each chunk
\* appended to cleaned, and the list it returns
parse_text_to_ingredients(text, db) ==
    IF text = PyNone \/ text = PyStr(<<>>)
    THEN [chunks |-> <<>>, resolved |-> <<>>, result |-> <<>>]
    ELSE ParseChunks(Chunks(text.str), Known(db))

-----------------------------------------------------------------------------
(* The normalizer on its own: an input, normalized once and twice *)

MaxTextLen == 3

NormAlphabet == {"e", "E", "U+0301", "U+200D", "U+00A0", " ", ".", "U+00E9"}

NormInputs ==
    {PyStr(s) : s \in SeqsUpTo(NormAlphabet, MaxTextLen)} \cup {PyNone, PyInt(7)}

\* An empty dict
EmptyDict == <<>>

TablesIdle ==
    /\ _NUTRITION_DB = EmptyDict
    /\ _SUB_MAP = EmptyDict

NutIdle ==
    /\ nut_pc = "idle"
    /\ nut_recipe = PyNone
    /\ nut_result = PyNone

SubIdle ==
    /\ sub_pc = "idle"
    /\ sub_missing = <<>>
    /\ sub_available = {}
    /\ sub_result = EmptyDict

LoadIdle ==
    /\ boot = "idle"
    /\ load_pc = "idle"
    /\ load_file = PyNone
    /\ load_row = 0
    /\ temp_db = EmptyDict
    /\ load_prev = EmptyDict
    /\ last_load = PyNone

OcrIdle ==
    /\ ocr_pc = "idle"
    /\ ocr_env = PyNone
    /\ ocr_known = PyNone
    /\ ocr_result = PyNone

TimeIdle ==
    /\ tf_pc = "idle"
    /\ tf_rec_time = 0
    /\ tf_max_time = 0
    /\ tf_score = <<0, 1>>

PrefsIdle ==
    /\ prefs_file = PyNone
    /\ last_call = PyNone
    /\ viewed = <<>>

LaterIdle ==
    /\ TablesIdle
    /\ NutIdle
    /\ SubIdle
    /\ LoadIdle
    /\ OcrIdle
    /\ TimeIdle
    /\ PrefsIdle

NormIdle ==
    /\ norm_pc = "idle"
    /\ norm_text = PyNone
    /\ norm_once = <<>>
    /\ norm_twice = <<>>

RankIdle ==
    /\ ALL_RECIPES = <<>>
    /\ user_ingredients = <<>>
    /\ preferences = PyNone
    /\ call = [fn |-> "none"]
    /\ computed = <<>>
    /\ result = <<>>

FoldIdle ==
    /\ fold_pc = "idle"
    /\ fold_token = <<>>
    /\ fold_result = <<>>

ParseIdle ==
    /\ parse_pc = "idle"
    /\ raw_text = PyNone
    /\ known_db = PyNone
    /\ parse_chunks = <<>>
    /\ parse_resolved = <<>>
    /\ parse_result = <<>>

EarlierIdle ==
    /\ NormIdle
    /\ RankIdle
    /\ FoldIdle
    /\ ParseIdle

NormInit ==
    /\ norm_pc = "input"
    /\ norm_text \in NormInputs
    /\ norm_once = <<>>
    /\ norm_twice = <<>>
    /\ RankIdle
    /\ FoldIdle
    /\ ParseIdle
    /\ LaterIdle

Normalize ==
    /\ norm_pc = "input"
    /\ norm_once' = normalize(norm_text)
    /\ norm_pc' = "once"
    /\ UNCHANGED <<norm_text, norm_twice, rank_vars, fold_vars, parse_vars, later_vars>>

NormalizeAgain ==
    /\ norm_pc = "once"
    /\ norm_twice' = normalize(PyStr(norm_once))
    /\ norm_pc' = "twice"
    /\ UNCHANGED <<norm_text, norm_once, rank_vars, fold_vars, parse_vars, later_vars>>

NormNext == Normalize \/ NormalizeAgain

SpecNorm == NormInit /\ [][NormNext]_vars

\* C8: normalize is idempotent, normalize(normalize(x)) = normalize(x) for
\* every input x, and a non-string input normalizes to the empty string.
C8_NormalizeIdempotent ==
    /\ norm_pc = "twice" => norm_twice = norm_once
    /\ (norm_pc # "input" /\ ~IsStr(norm_text)) => norm_once = <<>>

-----------------------------------------------------------------------------
(* Scoring requests against a loaded corpus *)

MaxCorpus == 2

S(lit) == PyStr(Str(lit))

\* Records of a recipes file.
RecipeFile ==
    {[title |-> "A", ingredients |-> <<S("egg")>>],
     [title |-> "B", ingredients |-> <<S("Egg"), S("walnut"), S("egg ")>>],
     [title |-> "C", ingredients |-> <<>>],
     [title |-> "D", ingredients |-> <<S(" egg"), S("EGG")>>, skill |-> S("Intermediate")],
     [title |-> "E", ingredients |-> <<S("rice")>>, cuisine |-> S("Thai"),
      taste_tags |-> <<S("Spicy")>>, diet |-> <<S("vegan")>>, time |-> 8,
      skill |-> S("beginner")],
     [title |-> "F", ingredients |-> <<S("rice"), S("walnut")>>, cuisine |-> S("Thai"),
      taste_tags |-> <<S("Spicy")>>, diet |-> <<S("vegan")>>, time |-> 8,
      skill |-> S("beginner")],
     [title |-> "G", ingredients |-> <<S("egg"), S("rice"), PyNone, S("salt"), S("oil")>>,
      cuisine |-> S("italian"), taste_tags |-> <<S("spicy"), S("sweet")>>,
      diet |-> <<S("Vegan")>>, cook_time |-> 20, skill |-> S("expert"), servings |-> 2]}

\* The lists of distinct records of at most n records
Files(n) ==
    {f \in SeqsUpTo(RecipeFile, n) : \A i, j \in 1..Len(f) : f[i] = f[j] => i = j}

\* preferences of a request
PreferencesPool ==
    {PyNone,
     [allergies |-> <<S("Nut ")>>],
     [allergies |-> <<S(""), PyInt(5), S("EGG")>>, cuisine |-> S("Thai"), max_time |-> 0],
     [cuisine |-> S("italian"), taste |-> S("Spicy"), diet |-> S("vegan"),
      max_time |-> 5, skill_level |-> S("beginner"), allergies |-> <<>>],
     [cuisine |-> S("french"), taste |-> S("spicy"), diet |-> S("vegan"), max_time |-> 5],
     [taste |-> S("sweet"), max_time |-> 10, skill_level |-> S("Beginner")]}

\* user_ingredients of a request
UserIngredientsPool ==
    {<<>>,
     <<S("Egg"), S(" ")>>,
     <<S("rice"), S("EGG"), PyInt(7), S("Salt.")>>}

\* top_n of a request (10: the default, and what main.py passes)
TopNs == {0, 1, 2, 10}

\* threshold of a request (0.6: the default)
Thresholds == {Rat(0, 1), Rat(3, 5), Rat(1, 1)}

RankInit ==
    /\ \E data \in Files(MaxCorpus) : ALL_RECIPES = load_recipes(data)
    /\ user_ingredients \in UserIngredientsPool
    /\ preferences \in PreferencesPool
    /\ call = [fn |-> "none"]
    /\ computed = <<>>
    /\ result = <<>>
    /\ NormIdle
    /\ FoldIdle
    /\ ParseIdle
    /\ LaterIdle

\* /api/suggest, or any other call of advanced_suggest_recipes
AdvancedSuggest ==
    \E scored \in {AdvancedLoop(user_ingredients, ALL_RECIPES, preferences)} :
        /\ computed' = scored
        /\ \E top_n \in TopNs :
            /\ call' = [fn |-> "advanced_suggest_recipes", top_n |-> top_n]
            /\ result' = AdvancedResult(scored, top_n)
        /\ UNCHANGED <<ALL_RECIPES, user_ingredients, preferences, norm_vars, fold_vars, parse_vars, later_vars>>

\* a call of suggest_recipes
SuggestRecipes ==
    /\ \E threshold \in Thresholds :
        /\ call' = [fn |-> "suggest_recipes", threshold |-> threshold]
        /\ result' = suggest_recipes(user_ingredients, ALL_RECIPES, threshold)
    /\ computed' = <<>>
    /\ UNCHANGED <<ALL_RECIPES, user_ingredients, preferences, norm_vars, fold_vars, parse_vars, later_vars>>

RankNext == AdvancedSuggest \/ SuggestRecipes

SpecRank == RankInit /\ [][RankNext]_vars

-----------------------------------------------------------------------------
(* What the claims about scoring speak of *)

Advanced == call.fn = "advanced_suggest_recipes"
Simple == call.fn = "suggest_recipes"

\* The place of the recipe with this title in the corpus (titles are unique).
CorpusIndex(title) == CHOOSE i \in 1..Len(ALL_RECIPES) : ALL_RECIPES[i].title = title

Returned(i) == \E k \in 1..Len(result) : result[k].title = ALL_RECIPES[i].title

\* The allergy terms of the request, normalized
AllergyTerms ==
    IF "none" \in DOMAIN preferences \/ "allergies" \notin DOMAIN preferences THEN {}
    ELSE {normalize(x) : x \in Range(preferences.allergies)} \ {<<>>}

HasAllergen(recipe) ==
    \E term \in AllergyTerms : \E k \in 1..Len(recipe.ingredients) :
        IsSubstring(term, recipe.ingredients[k])

\* C1: advanced_suggest_recipes never returns a recipe one of whose ingredient
\* names contains a non-empty normalized allergy term of the preferences.
C1_AllergyExclusion ==
    Advanced => \A k \in 1..Len(result) :
        /\ ~HasAllergen(ALL_RECIPES[CorpusIndex(result[k].title)])
        /\ \A term \in AllergyTerms, ing \in result[k].ingredients : ~IsSubstring(term, ing)

\* A recipe with an allergen that shares an ingredient with the user (so it
\* would score well) was left out, while another recipe was returned.
C1_Witness ==
    /\ Advanced
    /\ result # <<>>
    /\ \E i \in 1..Len(ALL_RECIPES) :
        /\ HasAllergen(ALL_RECIPES[i])
        /\ Range(ALL_RECIPES[i].ingredients) \cap user_set(user_ingredients) # {}
        /\ ~Returned(i)

\* The sort key of a returned recipe
ResultKey(r) == <<r.score, r.match_ratio, Rat(r.match_count, 1)>>

\* C2: the returned list is in descending order of (score, match_ratio,
\* match_count), and recipes with equal tuples are in corpus order.
C2_SortedStable ==
    Advanced => \A i, j \in 1..Len(result) : i < j =>
        /\ ~TupleLess(ResultKey(result[i]), ResultKey(result[j]))
        /\ ResultKey(result[i]) = ResultKey(result[j])
            => CorpusIndex(result[i].title) < CorpusIndex(result[j].title)

\* Two recipes with equal tuples were returned.
C2_Witness ==
    /\ Advanced
    /\ \E i, j \in 1..Len(result) :
        i < j /\ ResultKey(result[i]) = ResultKey(result[j])

\* The recipes that survive the allergy filter and the score > 0 filter
Survivors == {i \in 1..Len(computed) : computed[i].kept}

\* C3: for top_n >= 0 the call returns exactly min(top_n, Q) recipes, Q the
\* number of survivors, and they are the first min(top_n, Q) of the sorted
\* survivors: each is a survivor, none is returned twice, and every survivor
\* left out sorts after every recipe returned.
C3_TopN ==
    (Advanced /\ call.top_n >= 0) =>
        /\ Len(result) = Min(call.top_n, Cardinality(Survivors))
        /\ \A k \in 1..Len(result) :
            /\ CorpusIndex(result[k].title) \in Survivors
            /\ result[k] = computed[CorpusIndex(result[k].title)].entry
            /\ \A l \in 1..Len(result) : result[l].title = result[k].title => l = k
        /\ \A k \in 1..Len(result), i \in Survivors : ~Returned(i) =>
            \/ TupleLess(ResultKey(computed[i].entry), ResultKey(result[k]))
            \/ /\ ResultKey(computed[i].entry) = ResultKey(result[k])
               /\ CorpusIndex(result[k].title) < i

\* A call that truncated: fewer recipes returned than survived, and the
\* one returned is not the first survivor of the corpus.
C3_Witness ==
    /\ Advanced
    /\ call.top_n = 1
    /\ Cardinality(Survivors) = 2
    /\ Len(result) = 1
    /\ CorpusIndex(result[1].title) = 2

\* 0.55*matchRatio + 0.12*cuisine + 0.08*taste + 0.08*diet + 0.05*time
\* + 0.02*skill - 0.20*missingPenalty, for a recipe of the corpus
ClaimedScore(recipe) ==
    LET P == ReadPreferences(preferences)
        ings == Range(recipe.ingredients)
        users == user_set(user_ingredients)
        n == Max(1, Cardinality(ings))
        hundredths ==
            RAdd(RMul(Rat(55, 1), Rat(Cardinality(ings \cap users), n)),
            RAdd(RMul(Rat(12, 1), cuisine_score(recipe, P)),
            RAdd(RMul(Rat(8, 1), taste_score(recipe, P)),
            RAdd(RMul(Rat(8, 1), diet_score(recipe, P)),
            RAdd(RMul(Rat(5, 1), time_score(recipe, P)),
            RSub(RMul(Rat(2, 1), skill_score(recipe, P)),
                 RMul(Rat(20, 1), Rat(Cardinality(ings \ users), n))))))))
    IN  RMul(hundredths, Rat(1, 100))

\* C4: a recipe that passes the allergy filter gets the weighted score; before
\* truncation it is in the output iff that score is > 0; the reported score is
\* that value.
C4_ScoreFormula ==
    Advanced =>
        /\ \A i \in 1..Len(computed) : ~computed[i].skip =>
            /\ computed[i].raw_score = ClaimedScore(ALL_RECIPES[i])
            /\ call.top_n >= Len(ALL_RECIPES) =>
                (Returned(i) <=> RLess(RZero, ClaimedScore(ALL_RECIPES[i])))
        /\ \A k \in 1..Len(result) :
            result[k].score = ClaimedScore(ALL_RECIPES[CorpusIndex(result[k].title)])

\* A recipe whose score is exactly 0 was left out and one with a positive
\* score was returned.
C4_Witness ==
    /\ Advanced
    /\ call.top_n >= Len(ALL_RECIPES)
    /\ \E i, j \in 1..Len(computed) :
        /\ ~computed[i].skip /\ ClaimedScore(ALL_RECIPES[i]) = RZero /\ ~Returned(i)
        /\ Returned(j)

SameButIngredients(a, b) ==
    /\ a.cuisine = b.cuisine /\ a.diet = b.diet /\ a.taste_tags = b.taste_tags
    /\ a.time = b.time /\ a.skill = b.skill

MatchedSet(recipe) == Range(recipe.ingredients) \cap user_set(user_ingredients)
MissingSet(recipe) == Range(recipe.ingredients) \ user_set(user_ingredients)

\* a's missing set is a strict superset of b's, all else equal
MoreMissing(a, b) ==
    /\ SameButIngredients(a, b)
    /\ MatchedSet(a) = MatchedSet(b)
    /\ MissingSet(b) \subseteq MissingSet(a)
    /\ MissingSet(b) # MissingSet(a)

\* C5: if recipe A differs from recipe B only in that A's missing set is a
\* strict superset of B's, the score computed for B is >= that computed for A.
C5_Monotone ==
    Advanced => \A a, b \in 1..Len(computed) :
        (/\ ~computed[a].skip /\ ~computed[b].skip
         /\ MoreMissing(ALL_RECIPES[a], ALL_RECIPES[b]))
        => RLeq(computed[a].raw_score, computed[b].raw_score)

\* Such a pair was scored, B having no ingredients at all.
C5_Witness ==
    /\ Advanced
    /\ \E a, b \in 1..Len(computed) :
        /\ ~computed[a].skip /\ ~computed[b].skip
        /\ MoreMissing(ALL_RECIPES[a], ALL_RECIPES[b])
        /\ ALL_RECIPES[b].ingredients = <<>>
        /\ RLess(computed[a].raw_score, computed[b].raw_score)

\* C6: in every returned recipe matched is the user set intersected with the
\* recipe's ingredient set, missing is the ingredient set minus the user set,
\* the two are disjoint and cover the ingredient set, match_count = |matched|
\* and match_ratio = |matched| / max(1, |ingredient set|), duplicates in the
\* ingredient list counting once.
C6_MatchSets ==
    Advanced => \A k \in 1..Len(result) :
        LET r == result[k]
            recipe == ALL_RECIPES[CorpusIndex(r.title)]
            ings == Range(recipe.ingredients)
        IN  /\ Range(r.matched) = ings \cap user_set(user_ingredients)
            /\ Range(r.missing) = ings \ user_set(user_ingredients)
            /\ Len(r.matched) = Cardinality(Range(r.matched))
            /\ Len(r.missing) = Cardinality(Range(r.missing))
            /\ Range(r.matched) \cap Range(r.missing) = {}
            /\ Range(r.matched) \cup Range(r.missing) = ings
            /\ r.match_count = Cardinality(Range(r.matched))
            /\ r.match_ratio = Rat(Cardinality(Range(r.matched)), Max(1, Cardinality(ings)))

\* A returned recipe whose ingredient list repeats an ingredient, with
\* something matched and something missing.
C6_Witness ==
    /\ Advanced
    /\ \E k \in 1..Len(result) :
        LET recipe == ALL_RECIPES[CorpusIndex(result[k].title)]
        IN  /\ Len(recipe.ingredients) > Cardinality(Range(recipe.ingredients))
            /\ result[k].matched # <<>>
            /\ result[k].missing # <<>>

\* matchRatio = |matched| / max(1, |recipe ingredients|)
ClaimedRatio(recipe) ==
    Rat(Cardinality(MatchedSet(recipe)), Max(1, Cardinality(Range(recipe.ingredients))))

SimpleSorted ==
    \A i, j \in 1..Len(result) : i < j =>
        ~TupleLess(<<result[i].match_ratio, Rat(result[i].match_count, 1)>>,
                   <<result[j].match_ratio, Rat(result[j].match_count, 1)>>)

\* C7 as stated: suggest_recipes includes a recipe iff its matchRatio is >=
\* threshold, whatever the recipe (one with no ingredients included) and the
\* threshold (0 included), and the result is sorted descending by
\* (match_ratio, match_count).
C7_ThresholdOnly ==
    Simple =>
        /\ \A i \in 1..Len(ALL_RECIPES) :
            Returned(i) <=> RLeq(call.threshold, ClaimedRatio(ALL_RECIPES[i]))
        /\ SimpleSorted

\* C7 amended: suggest_recipes includes a recipe iff the recipe has at least
\* one ingredient and its matchRatio is >= threshold; the result is sorted
\* descending by (match_ratio, match_count).
C7_ThresholdNonEmpty ==
    Simple =>
        /\ \A i \in 1..Len(ALL_RECIPES) :
            Returned(i) <=>
                /\ ALL_RECIPES[i].ingredients # <<>>
                /\ RLeq(call.threshold, ClaimedRatio(ALL_RECIPES[i]))
        /\ \A k \in 1..Len(result) :
            result[k].match_ratio = ClaimedRatio(ALL_RECIPES[CorpusIndex(result[k].title)])
        /\ SimpleSorted

\* With threshold 0.6, a recipe of five ingredients, three of them matched,
\* was returned (its ratio is the threshold), and a recipe with no
\* ingredients was left out.
C7_Witness ==
    /\ Simple
    /\ call.threshold = Rat(3, 5)
    /\ \E i, j \in 1..Len(ALL_RECIPES) :
        /\ Returned(i)
        /\ Cardinality(Range(ALL_RECIPES[i].ingredients)) = 5
        /\ Cardinality(MatchedSet(ALL_RECIPES[i])) = 3
        /\ ALL_RECIPES[j].ingredients = <<>>
        /\ ~Returned(j)

-----------------------------------------------------------------------------
(* Plural folding on its own: one token, folded *)

MaxTokenLen == 4

FoldTokens ==
    SeqsUpTo({"e", "g", "i", "s"}, MaxTokenLen) \cup PluralKeys
        \cup StrSet({"tomato", "chili", "eggs", "berries", "glass", "onions"})

FoldInit ==
    /\ fold_pc = "input"
    /\ fold_token \in FoldTokens
    /\ fold_result = <<>>
    /\ NormIdle
    /\ RankIdle
    /\ ParseIdle
    /\ LaterIdle

Fold ==
    /\ fold_pc = "input"
    /\ fold_result' = _plural_to_singular_token(fold_token)
    /\ fold_pc' = "folded"
    /\ UNCHANGED <<fold_token, norm_vars, rank_vars, parse_vars, later_vars>>

SpecFold == FoldInit /\ [][Fold]_vars

\* The generic suffix rules of the claim: -ies -> -y, and a trailing -s that
\* is not preceded by another s is dropped
GenericFold(token) ==
    IF EndsWith(token, Str("ies")) /\ Len(token) > 3
    THEN SubSeq(token, 1, Len(token) - 3) \o Str("y")
    ELSE IF EndsWith(token, Str("s")) /\ ~EndsWith(token, Str("ss"))
    THEN SubSeq(token, 1, Len(token) - 1)
    ELSE token

\* C9: plural folding of a token applies the exception map first and only
\* then the generic suffix rules, so that "tomatoes" folds to "tomato",
\* "chillies" folds to "chili" and "eggs" folds to "eggs".
C9_PluralFolding ==
    fold_pc = "folded" =>
        /\ fold_token \in PluralKeys => <<fold_token, fold_result>> \in PLURAL_MAP
        /\ fold_token \notin PluralKeys => fold_result = GenericFold(fold_token)
        /\ fold_token = Str("tomatoes") => fold_result = Str("tomato")
        /\ fold_token = Str("chillies") => fold_result = Str("chili")
        /\ fold_token = Str("eggs") => fold_result = Str("eggs")

-----------------------------------------------------------------------------
(* Receipt texts, parsed against a known-ingredient set *)

MaxChunks == 3

\* Fragments of a receipt, none with a separator in it
Fragments ==
    StrSet({"eggs", " Egg", "onionn", "- 2 kg Onions Rs.50", "xyz123", "Paneeer"})

\* What stands between two fragments
Separators == {Str(","), <<";", "U+000D", "U+000A">>}

\* The texts of at most n fragments
RECURSIVE Texts(_)
Texts(n) ==
    IF n = 0 THEN {<<>>}
    ELSE IF n = 1 THEN {<<>>} \cup Fragments
    ELSE Texts(n - 1) \cup
         {t \o sep \o f : t \in Texts(n - 1) \ {<<>>}, sep \in Separators, f \in Fragments}

\* known_db: None, or the set of a request
PySet(elements) == [set |-> elements]
KnownPool == {PyNone, PySet({S("Paneer "), S("rice")})}

ParseInit ==
    /\ parse_pc = "input"
    /\ raw_text \in {PyStr(t) : t \in Texts(MaxChunks)}
    /\ known_db \in KnownPool
    /\ parse_chunks = <<>>
    /\ parse_resolved = <<>>
    /\ parse_result = <<>>
    /\ NormIdle
    /\ RankIdle
    /\ FoldIdle
    /\ LaterIdle

\* A call of parse_text_to_ingredients; parse_chunks is its chunks list and
\* parse_resolved what each chunk appended to cleaned
ParseText ==
    /\ parse_pc = "input"
    /\ \E trace \in {parse_text_to_ingredients(raw_text, known_db)} :
        /\ parse_chunks' = trace.chunks
        /\ parse_resolved' = trace.resolved
        /\ parse_result' = trace.result
    /\ parse_pc' = "done"
    /\ UNCHANGED <<raw_text, known_db, norm_vars, rank_vars, fold_vars, later_vars>>

SpecParse == ParseInit /\ [][ParseText]_vars

\* The chunks that were accepted, and the first chunk that resolved to a name
Accepted == {k \in 1..Len(parse_resolved) : parse_resolved[k] # <<>>}
FirstChunk(name) ==
    CHOOSE k \in Accepted :
        /\ parse_resolved[k] = <<name>>
        /\ \A l \in Accepted : parse_resolved[l] = <<name>> => k <= l

\* C10: the list parse_text_to_ingredients returns has no duplicate element,
\* holds exactly the names some chunk resolved to, and orders them by the
\* first chunk of the text that resolved to each.
C10_DedupeFirstOccurrence ==
    parse_pc = "done" =>
        /\ \A i, j \in 1..Len(parse_result) : parse_result[i] = parse_result[j] => i = j
        /\ Range(parse_result) = {parse_resolved[k][1] : k \in Accepted}
        /\ \A i, j \in 1..Len(parse_result) :
                i < j => FirstChunk(parse_result[i]) < FirstChunk(parse_result[j])

\* Two different chunks resolve to one name, after a chunk that resolved to
\* another name and before a chunk that resolved to a third; the name stands
\* once, second in the list.
C10_Witness ==
    /\ parse_pc = "done"
    /\ Len(parse_result) >= 2
    /\ \E i, j \in Accepted :
        /\ 1 \in Accepted
        /\ 1 < i /\ i < j
        /\ parse_chunks[i] # parse_chunks[j]
        /\ parse_resolved[i] = parse_resolved[j]
        /\ parse_resolved[1] # parse_resolved[i]
        /\ parse_result[2] = parse_resolved[i][1]
        /\ Cardinality({k \in 1..Len(parse_result) :
                            parse_result[k] = parse_resolved[i][1]}) = 1

-----------------------------------------------------------------------------
(* nutrition.py: lookup, summarize, calculate_recipe_nutrition *)

\* {"calories": c, "protein": p, "carbs": cb, "fat": f}
NutritionRecord(c, p, cb, f) == [calories |-> c, protein |-> p, carbs |-> cb, fat |-> f]

\* totals = {"calories": 0.0, "protein": 0.0, "carbs": 0.0, "fat": 0.0}
ZeroTotals == NutritionRecord(RZero, RZero, RZero, RZero)

\* The three keys lookup tries: the normalized name, then the name without
\* its final s, or with an s appended when it has none
LookupKey(norm_key, db) ==
    IF norm_key \in DOMAIN db THEN db[norm_key]
    ELSE IF EndsWith(norm_key, <<"s">>)
    THEN (IF SubSeq(norm_key, 1, Len(norm_key) - 1) \in DOMAIN db
          THEN db[SubSeq(norm_key, 1, Len(norm_key) - 1)] ELSE PyNone)
    ELSE (IF norm_key \o <<"s">> \in DOMAIN db THEN db[norm_key \o <<"s">>] ELSE PyNone)

\* lookup(ingredient), against the table db
lookup(ingredient, db) ==
    IF ~IsStr(ingredient) \/ ingredient.str = <<>> THEN PyNone
    ELSE LookupKey(normalize(ingredient), db)

\* totals[k] += float(info.get(k, 0.0)) for k in totals
AddInfo(totals, info) ==
    IF info = PyNone THEN totals
    ELSE NutritionRecord(RAdd(totals.calories, info.calories), RAdd(totals.protein, info.protein),
                         RAdd(totals.carbs, info.carbs), RAdd(totals.fat, info.fat))

\* The loop of summarize from the i-th ingredient on
RECURSIVE SummarizeFrom(_, _, _, _)
SummarizeFrom(ingredients, i, db, totals) ==
    IF i > Len(ingredients) THEN totals
    ELSE SummarizeFrom(ingredients, i + 1, db, AddInfo(totals, lookup(ingredients[i], db)))

summarize(ingredients, db) == SummarizeFrom(ingredients, 1, db, ZeroTotals)

\* int(recipe.get("servings", 1) or 1)
RecipeServings(recipe) ==
    IF Get(recipe, "servings", 1) = 0 THEN 1 ELSE Get(recipe, "servings", 1)

\* {k: total[k] / servings for k in total}
PerServing(total, servings) ==
    NutritionRecord(RMul(total.calories, Rat(1, servings)), RMul(total.protein, Rat(1, servings)),
                    RMul(total.carbs, Rat(1, servings)), RMul(total.fat, Rat(1, servings)))

\* calculate_recipe_nutrition(recipe), against the table db; a recipe is a
\* dict or None, its ingredients a list of Python values
calculate_recipe_nutrition(recipe, db) ==
    IF recipe = PyNone \/ DOMAIN recipe = {}
    THEN [total |-> ZeroTotals, per_serving |-> ZeroTotals]
    ELSE [total |-> summarize(Get(recipe, "ingredients", <<>>), db),
          per_serving |-> PerServing(summarize(Get(recipe, "ingredients", <<>>), db),
                                     RecipeServings(recipe))]

-----------------------------------------------------------------------------
(* Nutrition of one recipe against a loaded table *)

MaxIngredients == 2
MaxServings == 2

\* A record of the table with the given calories and protein
Per100g(c, p) == NutritionRecord(Rat(c, 1), Rat(p, 1), RZero, Rat(1, 2))

\* Tables load_nutrition_from_csv can leave behind
NutritionTables ==
    {EmptyDict,
     (Str("egg") :> Per100g(100, 6)) @@ (Str("rice") :> Per100g(50, 1)),
     (Str("eggs") :> Per100g(100, 6)) @@ (Str("oil") :> Per100g(9, 0))}

NutritionIngredients == {S("egg"), S("Eggs "), S("rice"), S("walnut"), PyNone}

NutritionRecipes ==
    {PyNone}
    \cup {[ingredients |-> ings] : ings \in SeqsUpTo(NutritionIngredients, MaxIngredients)}
    \cup {[ingredients |-> ings, servings |-> n] :
            ings \in SeqsUpTo(NutritionIngredients, MaxIngredients),
            n \in (0 - MaxServings)..MaxServings}

NutInit ==
    /\ _NUTRITION_DB \in NutritionTables
    /\ _SUB_MAP = EmptyDict
    /\ nut_pc = "input"
    /\ nut_recipe \in NutritionRecipes
    /\ nut_result = PyNone
    /\ EarlierIdle
    /\ SubIdle /\ LoadIdle /\ OcrIdle /\ TimeIdle /\ PrefsIdle

\* A call of calculate_recipe_nutrition
CalculateRecipeNutrition ==
    /\ nut_pc = "input"
    /\ nut_result' = calculate_recipe_nutrition(nut_recipe, _NUTRITION_DB)
    /\ nut_pc' = "done"
    /\ UNCHANGED <<nut_recipe, table_vars, earlier_vars>>
    /\ UNCHANGED <<sub_vars, load_vars, ocr_vars, tf_vars, pref_vars>>

SpecNutrition == NutInit /\ [][CalculateRecipeNutrition]_vars

\* The component-wise sum of the records of the ingredients of the list that
\* the table resolves
RECURSIVE SumOfResolved(_, _)
SumOfResolved(ings, db) ==
    IF ings = <<>> THEN ZeroTotals
    ELSE AddInfo(SumOfResolved(Tail(ings), db), lookup(Head(ings), db))

\* C11: calculate_recipe_nutrition returns as total the component-wise sum of
\* the records of the recipe's resolvable ingredients and as per_serving the
\* total divided by max(1, servings), for every integer servings, 0 and
\* negative values included.
C11_PerServingOfMax ==
    (nut_pc = "done" /\ nut_recipe # PyNone) =>
        /\ nut_result.total = SumOfResolved(nut_recipe.ingredients, _NUTRITION_DB)
        /\ nut_result.per_serving
             = PerServing(nut_result.total, Max(1, Get(nut_recipe, "servings", 1)))

\* The same for the recipes whose servings are not negative
C11_NonNegativeServings ==
    (nut_pc = "done" /\ nut_recipe # PyNone /\ Get(nut_recipe, "servings", 1) >= 0) =>
        /\ nut_result.total = SumOfResolved(nut_recipe.ingredients, _NUTRITION_DB)
        /\ nut_result.per_serving
             = PerServing(nut_result.total, Max(1, Get(nut_recipe, "servings", 1)))

\* The example of the claim: 100 and 50 calories, two servings
C11_Example ==
    /\ nut_pc = "done"
    /\ nut_recipe = [ingredients |-> <<S("egg"), S("rice")>>, servings |-> 2]
    /\ nut_result.total.calories = Rat(150, 1)
    /\ nut_result.per_serving.calories = Rat(75, 1)

-----------------------------------------------------------------------------
(* substitutes.py: load_substitutions_from_json, suggest_substitutes *)

\* [normalize(v) for v in values if isinstance(v, str)]
RECURSIVE NormValues(_, _)
NormValues(values, i) ==
    IF i > Len(values) THEN <<>>
    ELSE (IF IsStr(values[i]) THEN <<normalize(values[i])>> ELSE <<>>)
         \o NormValues(values, i + 1)

\* The loop of load_substitutions_from_json over data_raw.items(), a list of
\* <<key, values>> pairs in the order of the file
RECURSIVE LoadSubstitutions(_, _, _)
LoadSubstitutions(items, i, temp) ==
    IF i > Len(items) THEN temp
    ELSE LoadSubstitutions(items, i + 1,
            (normalize(items[i][1]) :> NormValues(items[i][2], 1)) @@ temp)

\* avail_lower = {normalize(a) for a in available}
AvailLower_Raw(available) == {a.str : a \in {b \in available : IsStr(b)}}
AvailLower(available) == {normalize(a) : a \in available}

\* _SUB_MAP.get(miss_l, [])
Subs(miss, sub_map) ==
    IF normalize(miss) \in DOMAIN sub_map THEN sub_map[normalize(miss)] ELSE <<>>

\* The provided / candidates lists of one missing ingredient
RECURSIVE Partition(_, _, _, _)
Partition(subs, i, avail_lower, available_wanted) ==
    IF i > Len(subs) THEN <<>>
    ELSE (IF (subs[i] \in avail_lower) = available_wanted THEN <<subs[i]>> ELSE <<>>)
         \o Partition(subs, i + 1, avail_lower, available_wanted)

\* out[miss]
SubstitutesOf(subs, avail_lower) ==
    IF Partition(subs, 1, avail_lower, TRUE) # <<>>
    THEN Partition(subs, 1, avail_lower, TRUE)
    ELSE Partition(subs, 1, avail_lower, FALSE)

\* The loop over missing, from its i-th element on
RECURSIVE SuggestFrom(_, _, _, _, _)
SuggestFrom(missing, i, avail_lower, sub_map, out) ==
    IF i > Len(missing) THEN out
    ELSE SuggestFrom(missing, i + 1, avail_lower, sub_map,
            (missing[i] :> SubstitutesOf(Subs(missing[i], sub_map), avail_lower)) @@ out)

\* suggest_substitutes(missing, available), against the table sub_map
suggest_substitutes(missing, available, sub_map) ==
    SuggestFrom(missing, 1, AvailLower(available), sub_map, EmptyDict)

-----------------------------------------------------------------------------
(* Substitutes of missing ingredients against a loaded table *)

MaxMissing == 2

\* The objects of substitution files
SubstitutionFiles ==
    {<<>>,
     <<<<S("Butter "), <<S("Ghee"), S("oil"), PyInt(5), S("GHEE")>>>>, <<S("milk"), <<>>>>>>,
     <<<<S("butter"), <<S("margarine")>>>>, <<S("BUTTER"), <<S("Oil "), S("ghee")>>>>,
       <<S("walnut"), <<S("pecan")>>>>>>}

SubstitutionTables == {LoadSubstitutions(items, 1, EmptyDict) : items \in SubstitutionFiles}

MissingPool == {S("Butter"), S("milk"), S("walnut"), PyNone}
AvailablePool == {S("ghee "), S("OIL"), S("salt")}

SubInit ==
    /\ _SUB_MAP \in SubstitutionTables
    /\ _NUTRITION_DB = EmptyDict
    /\ sub_pc = "input"
    /\ sub_missing \in SeqsUpTo(MissingPool, MaxMissing)
    /\ sub_available \in SUBSET AvailablePool
    /\ sub_result = EmptyDict
    /\ EarlierIdle
    /\ NutIdle /\ LoadIdle /\ OcrIdle /\ TimeIdle /\ PrefsIdle

\* A call of suggest_substitutes
SuggestSubstitutes ==
    /\ sub_pc = "input"
    /\ sub_result' = suggest_substitutes(sub_missing, sub_available, _SUB_MAP)
    /\ sub_pc' = "done"
    /\ UNCHANGED <<sub_missing, sub_available, table_vars, earlier_vars>>
    /\ UNCHANGED <<nut_vars, load_vars, ocr_vars, tf_vars, pref_vars>>

SpecSubs == SubInit /\ [][SuggestSubstitutes]_vars

\* The substitutes registered for the normalized name of miss, and those of
\* them that are in the normalized available set, in registered order
Registered(miss) ==
    IF normalize(miss) \in DOMAIN _SUB_MAP THEN _SUB_MAP[normalize(miss)] ELSE <<>>

RegisteredAvailable(miss) ==
    SelectSeq(Registered(miss), LAMBDA s : \E a \in sub_available : normalize(a) = s)

\* C12: suggest_substitutes returns one key per missing ingredient; the value
\* is the registered substitutes that are in the normalized available set,
\* in registered order, when there is one; the whole registered list when
\* none is available; the empty list when no rule is registered.
C12_SubstitutesPartition ==
    sub_pc = "done" =>
        /\ DOMAIN sub_result = Range(sub_missing)
        /\ \A miss \in Range(sub_missing) :
            /\ RegisteredAvailable(miss) # <<>> => sub_result[miss] = RegisteredAvailable(miss)
            /\ RegisteredAvailable(miss) = <<>> => sub_result[miss] = Registered(miss)
            /\ normalize(miss) \notin DOMAIN _SUB_MAP => sub_result[miss] = <<>>

\* A call in which one missing ingredient, written unlike its rule, has some
\* substitutes available, written unlike the rule, and some not, and another
\* has none available
C12_Witness ==
    /\ sub_pc = "done"
    /\ \E miss \in {m \in Range(sub_missing) : IsStr(m)} :
        /\ miss.str \notin DOMAIN _SUB_MAP
        /\ sub_result[miss] # <<>>
        /\ Len(sub_result[miss]) < Len(Registered(miss))
        /\ \A a \in sub_available : a.str \notin Range(sub_result[miss])
    /\ \E miss \in Range(sub_missing) :
        /\ RegisteredAvailable(miss) = <<>>
        /\ sub_result[miss] # <<>>

-----------------------------------------------------------------------------
(* nutrition.py: load_nutrition_from_csv *)

\* float(text) of a decimal numeral, [sign] digits [. [digits]] or
\* [sign] . digits between white space: the digits, and where they end
DigitValue(c) == CHOOSE n \in 0..9 : Str("0123456789")[n + 1] = c

RECURSIVE DigitsValue(_, _)
DigitsValue(digits, acc) ==
    IF digits = <<>> THEN acc ELSE DigitsValue(Tail(digits), 10 * acc + DigitValue(Head(digits)))

RECURSIVE Pow10(_)
Pow10(n) == IF n = 0 THEN 1 ELSE 10 * Pow10(n - 1)

\* The numeral without its sign: whole digits, then maybe a point and digits
UnsignedFloat(whole, rest) ==
    IF rest = <<>>
    THEN [ok |-> whole # <<>>, value |-> Rat(DigitsValue(whole, 0), 1)]
    ELSE IF Head(rest) = "." /\ Range(Tail(rest)) \subseteq Digit /\ whole \o Tail(rest) # <<>>
    THEN [ok |-> TRUE, value |-> Rat(DigitsValue(whole \o Tail(rest), 0), Pow10(Len(rest) - 1))]
    ELSE [ok |-> FALSE, value |-> RZero]

SplitFloat(s) == UnsignedFloat(SubSeq(s, 1, RunEnd(s, 1, Digit) - 1),
                               SubSeq(s, RunEnd(s, 1, Digit), Len(s)))

SignedFloat(s) ==
    IF s # <<>> /\ Head(s) = "-"
    THEN [ok |-> SplitFloat(Tail(s)).ok, value |-> RSub(RZero, SplitFloat(Tail(s)).value)]
    ELSE IF s # <<>> /\ Head(s) = "+" THEN SplitFloat(Tail(s))
    ELSE SplitFloat(s)

\* float(text): ok is false where float raises ValueError
FloatOf(text) == SignedFloat(Strip(text, WhiteSpace))

\* float(row.get(column, 0.0) or 0.0)
FloatCell(row, column) ==
    IF column \notin DOMAIN row THEN [ok |-> TRUE, value |-> RZero]
    ELSE IF row[column] = PyNone \/ row[column].str = <<>> THEN [ok |-> TRUE, value |-> RZero]
    ELSE FloatOf(row[column].str)

NumericColumns == {"calories_100g", "protein_100g", "carbs_100g", "fat_100g"}

\* The body of the loop for one row of the reader: what it leaves in temp_db
\* and in _NUTRITION_DB, and how it ends (the row is stored, skipped for its
\* empty name, dropped as invalid on a ValueError, or the load is given up on
\* a KeyError)
RowOutcome_InPlace(row, temp, table) ==
    IF "ingredient_name" \notin DOMAIN row
    THEN [kind |-> "KeyError", temp |-> temp, table |-> EmptyDict]
    ELSE IF normalize(row.ingredient_name) = <<>>
    THEN [kind |-> "skipped", temp |-> temp, table |-> table]
    ELSE IF \E column \in NumericColumns : ~FloatCell(row, column).ok
    THEN [kind |-> "invalid", temp |-> temp, table |-> table]
    ELSE [kind |-> "stored",
          temp |-> temp,
          table |-> (normalize(row.ingredient_name) :>
                        NutritionRecord(FloatCell(row, "calories_100g").value,
                                        FloatCell(row, "protein_100g").value,
                                        FloatCell(row, "carbs_100g").value,
                                        FloatCell(row, "fat_100g").value)) @@ table]

RowOutcome(row, temp, table) ==
    IF "ingredient_name" \notin DOMAIN row
    THEN [kind |-> "KeyError", temp |-> temp, table |-> EmptyDict]
    ELSE IF normalize(row.ingredient_name) = <<>>
    THEN [kind |-> "skipped", temp |-> temp, table |-> table]
    ELSE IF \E column \in NumericColumns : ~FloatCell(row, column).ok
    THEN [kind |-> "invalid", temp |-> temp, table |-> table]
    ELSE [kind |-> "stored",
          temp |-> (normalize(row.ingredient_name) :>
                        NutritionRecord(FloatCell(row, "calories_100g").value,
                                        FloatCell(row, "protein_100g").value,
                                        FloatCell(row, "carbs_100g").value,
                                        FloatCell(row, "fat_100g").value)) @@ temp,
          table |-> table]

\* The reader raises at this row (the file cannot be decoded from here on)
ReaderRaises(file, i) == file.fault_at = i

\* The rows of the file from the i-th on: the table the call leaves
RECURSIVE LoadRows(_, _, _, _)
LoadRows(file, i, temp, table) ==
    IF ReaderRaises(file, i) THEN table
    ELSE IF i > Len(file.rows) THEN temp
    ELSE IF RowOutcome(file.rows[i], temp, table).kind = "KeyError"
    THEN RowOutcome(file.rows[i], temp, table).table
    ELSE LoadRows(file, i + 1, RowOutcome(file.rows[i], temp, table).temp,
                  RowOutcome(file.rows[i], temp, table).table)

\* load_nutrition_from_csv(file_path): the table it leaves, given the table
\* there was
load_nutrition_from_csv(file, table) ==
    IF ~file.exists THEN table ELSE LoadRows(file, 1, EmptyDict, table)

-----------------------------------------------------------------------------
(* Nutrition files, loaded and loaded again *)

CsvRow(name, calories, protein, carbs, fat) ==
    [ingredient_name |-> name, calories_100g |-> calories, protein_100g |-> protein,
     carbs_100g |-> carbs, fat_100g |-> fat]

EggRow == CsvRow(S("Egg"), S("100"), S("6"), S("0"), S("0.5"))
OilRow == CsvRow(S("oil"), S(" 9 "), S("-3"), S("1."), S(".5"))
RiceRow == CsvRow(S("rice"), S("50"), S("abc"), S("1"), S("1"))
SaltRow == CsvRow(S("Salt "), S(""), S("1"), PyNone, PyNone)
BlankRow == CsvRow(S(" "), S("5"), S("5"), S("5"), S("5"))

MissingFile == [exists |-> FALSE]
CsvFile(rows, fault_at) == [exists |-> TRUE, rows |-> rows, fault_at |-> fault_at]

\* A file that is not there, well-formed files, a file with rows of every
\* kind, a file that cannot be decoded from its second row on, a file without
\* the ingredient_name column, and one without the calories_100g column
NutritionFiles ==
    {MissingFile,
     CsvFile(<<EggRow, OilRow>>, 0),
     CsvFile(<<OilRow>>, 0),
     CsvFile(<<EggRow, RiceRow, BlankRow, SaltRow>>, 0),
     CsvFile(<<EggRow, OilRow>>, 2),
     CsvFile(<<[name |-> S("egg"), calories_100g |-> S("100"), protein_100g |-> S("6"),
                carbs_100g |-> S("0"), fat_100g |-> S("1")]>>, 0),
     CsvFile(<<[ingredient_name |-> S("egg"), protein_100g |-> S("6"),
                carbs_100g |-> S("0"), fat_100g |-> S("1")]>>, 0)}

\* The file is missing or malformed
NutritionFault(file) ==
    \/ ~file.exists
    \/ file.fault_at > 0
    \/ \E i \in 1..Len(file.rows) : "ingredient_name" \notin DOMAIN file.rows[i]

LoadInit ==
    /\ _NUTRITION_DB = EmptyDict
    /\ _SUB_MAP = EmptyDict
    /\ boot = "nutrition"
    /\ load_pc = "idle"
    /\ load_file = PyNone
    /\ load_row = 0
    /\ temp_db = EmptyDict
    /\ load_prev = EmptyDict
    /\ last_load = PyNone
    /\ EarlierIdle
    /\ NutIdle /\ SubIdle /\ OcrIdle /\ TimeIdle /\ PrefsIdle

\* load_nutrition_from_csv is called: lines 29-39
LoadNutritionBegin ==
    /\ load_pc = "idle"
    /\ \E file \in NutritionFiles :
        /\ load_file' = file
        /\ load_prev' = _NUTRITION_DB
        /\ \/ /\ ~file.exists
              /\ last_load' = [loader |-> "nutrition", kind |-> "missing"]
              /\ UNCHANGED <<load_pc, load_row, temp_db>>
           \/ /\ file.exists
              /\ load_pc' = "rows"
              /\ load_row' = 1
              /\ temp_db' = EmptyDict
              /\ UNCHANGED last_load
    /\ UNCHANGED <<boot, table_vars, earlier_vars>>
    /\ UNCHANGED <<nut_vars, sub_vars, ocr_vars, tf_vars, pref_vars>>

\* One row of the reader: lines 45-63, and the handler of lines 68-70
LoadNutritionRow ==
    /\ load_pc = "rows"
    /\ load_row <= Len(load_file.rows) \/ ReaderRaises(load_file, load_row)
    /\ \/ /\ ReaderRaises(load_file, load_row)
          /\ load_pc' = "idle"
          /\ last_load' = [loader |-> "nutrition", kind |-> "unreadable"]
          /\ UNCHANGED <<load_row, temp_db, _NUTRITION_DB>>
       \/ /\ ~ReaderRaises(load_file, load_row)
          /\ \E outcome \in {RowOutcome(load_file.rows[load_row], temp_db, _NUTRITION_DB)} :
              /\ temp_db' = outcome.temp
              /\ _NUTRITION_DB' = outcome.table
              /\ \/ /\ outcome.kind = "KeyError"
                    /\ load_pc' = "idle"
                    /\ last_load' = [loader |-> "nutrition", kind |-> "KeyError"]
                    /\ UNCHANGED load_row
                 \/ /\ outcome.kind # "KeyError"
                    /\ load_row' = load_row + 1
                    /\ UNCHANGED <<load_pc, last_load>>
    /\ UNCHANGED <<boot, load_file, load_prev, _SUB_MAP, earlier_vars>>
    /\ UNCHANGED <<nut_vars, sub_vars, ocr_vars, tf_vars, pref_vars>>

\* The reader is exhausted: line 72
LoadNutritionEnd ==
    /\ load_pc = "rows"
    /\ load_row > Len(load_file.rows)
    /\ ~ReaderRaises(load_file, load_row)
    /\ _NUTRITION_DB' = temp_db
    /\ load_pc' = "idle"
    /\ last_load' = [loader |-> "nutrition", kind |-> "loaded"]
    /\ UNCHANGED <<boot, load_file, load_row, temp_db, load_prev, _SUB_MAP, earlier_vars>>
    /\ UNCHANGED <<nut_vars, sub_vars, ocr_vars, tf_vars, pref_vars>>

LoadNext == LoadNutritionBegin \/ LoadNutritionRow \/ LoadNutritionEnd

SpecLoad == LoadInit /\ [][LoadNext]_vars

\* The field of a record that a column of the file fills
FieldOf(column) ==
    CASE column = "calories_100g" -> "calories"
      [] column = "protein_100g" -> "protein"
      [] column = "carbs_100g" -> "carbs"
      [] column = "fat_100g" -> "fat"

\* The cell of the row is missing (short row, or empty), or is not a number
MissingCell(row, column) == row[column] = PyNone \/ row[column].str = <<>>
NonNumericCell(row, column) == ~MissingCell(row, column) /\ ~FloatOf(row[column].str).ok

AllColumns == NumericColumns \cup {"ingredient_name"}

\* The rows of the file the claim speaks of: a non-empty name, a numeric cell
\* that is missing or not a number, and no later row of the same name
HasDefaultedCell(rows, i) ==
    /\ DOMAIN rows[i] = AllColumns
    /\ normalize(rows[i].ingredient_name) # <<>>
    /\ \E column \in NumericColumns :
          MissingCell(rows[i], column) \/ NonNumericCell(rows[i], column)
    /\ \A j \in (i + 1)..Len(rows) :
          normalize(rows[j].ingredient_name) # normalize(rows[i].ingredient_name)

\* C13: a row with a non-empty name in which a numeric cell is non-numeric or
\* missing is kept in the table with that field 0.0; rows with an empty
\* normalized name are skipped; if a required column is absent from the file
\* the load aborts and the table becomes empty.
C13_BadCellsDefaultToZero ==
    (load_pc = "idle" /\ last_load # PyNone /\ load_file.exists /\ load_file.fault_at = 0) =>
        /\ \A i \in 1..Len(load_file.rows) :
              HasDefaultedCell(load_file.rows, i) =>
                /\ normalize(load_file.rows[i].ingredient_name) \in DOMAIN _NUTRITION_DB
                /\ \A column \in NumericColumns :
                      (MissingCell(load_file.rows[i], column)
                          \/ NonNumericCell(load_file.rows[i], column)) =>
                        _NUTRITION_DB[normalize(load_file.rows[i].ingredient_name)][FieldOf(column)]
                            = RZero
        /\ <<>> \notin DOMAIN _NUTRITION_DB
        /\ (\E i \in 1..Len(load_file.rows) : DOMAIN load_file.rows[i] # AllColumns) =>
              /\ last_load.kind # "loaded"
              /\ _NUTRITION_DB = EmptyDict

\* The same, for missing cells only and for the ingredient_name column only
C13_MissingCellsDefaultToZero ==
    (load_pc = "idle" /\ last_load # PyNone /\ load_file.exists /\ load_file.fault_at = 0) =>
        /\ \A i \in 1..Len(load_file.rows) :
              (HasDefaultedCell(load_file.rows, i)
                 /\ \A column \in NumericColumns : ~NonNumericCell(load_file.rows[i], column)) =>
                /\ normalize(load_file.rows[i].ingredient_name) \in DOMAIN _NUTRITION_DB
                /\ \A column \in NumericColumns :
                      MissingCell(load_file.rows[i], column) =>
                        _NUTRITION_DB[normalize(load_file.rows[i].ingredient_name)][FieldOf(column)]
                            = RZero
        /\ <<>> \notin DOMAIN _NUTRITION_DB
        /\ (\E i \in 1..Len(load_file.rows) : "ingredient_name" \notin DOMAIN load_file.rows[i]) =>
              /\ last_load.kind # "loaded"
              /\ _NUTRITION_DB = EmptyDict

\* The table a file of these rows holds, row by row
RECURSIVE ParsedRows(_)
ParsedRows(rows) ==
    IF rows = <<>> THEN EmptyDict
    ELSE RowOutcome(rows[Len(rows)], ParsedRows(SubSeq(rows, 1, Len(rows) - 1)), EmptyDict).temp

\* C17: the nutrition table is replaced wholesale: while a load is under way
\* the table is the one there was before it, and when the call has returned
\* the table is the complete table of the file, or empty, or the one there
\* was before; never a mixture or a prefix.
C17_WholesaleReplace ==
    /\ load_pc = "rows" => _NUTRITION_DB = load_prev
    /\ (load_pc = "idle" /\ last_load # PyNone) =>
          \/ last_load.kind = "loaded" /\ _NUTRITION_DB = ParsedRows(load_file.rows)
          \/ last_load.kind = "KeyError" /\ _NUTRITION_DB = EmptyDict
          \/ last_load.kind \in {"missing", "unreadable"} /\ _NUTRITION_DB = load_prev

\* A reload under way after a successful load: some rows of the new file are
\* parsed, and the table is still the old one
C17_Witness ==
    /\ load_pc = "rows"
    /\ load_prev # EmptyDict
    /\ temp_db # EmptyDict
    /\ temp_db # load_prev
    /\ DOMAIN temp_db # DOMAIN ParsedRows(load_file.rows)

-----------------------------------------------------------------------------
(* suggestor.py: the nutrition and substitutes of a scored recipe *)

\* The str values of a list, or a set, of names
RECURSIVE PyStrEach(_, _)
PyStrEach(names, i) ==
    IF i > Len(names) THEN <<>> ELSE <<PyStr(names[i])>> \o PyStrEach(names, i + 1)

\* _compute_recipe_nutrition(recipe, nm): the per-serving totals
_compute_recipe_nutrition(recipe, db) ==
    PerServing(summarize(PyStrEach(recipe.ingredients, 1), db), RecipeServings(recipe))

\* The entries of the loop, each with its nutrition and substitutes
RECURSIVE WithReferenceData(_, _, _, _, _, _)
WithReferenceData(scored, i, recipes, users, db, sub_map) ==
    IF i > Len(scored) THEN <<>>
    ELSE <<IF scored[i].kept
           THEN [scored[i] EXCEPT !.entry =
                    [nutrition |-> _compute_recipe_nutrition(recipes[i], db),
                     substitutes |-> suggest_substitutes(PyStrEach(scored[i].entry.missing, 1),
                                                         {PyStr(u) : u \in users}, sub_map)]
                    @@ scored[i].entry]
           ELSE scored[i]>>
         \o WithReferenceData(scored, i + 1, recipes, users, db, sub_map)

\* advanced_suggest_recipes(user_ingredients, recipes, preferences, top_n)
\* with the two modules main.py passes
AdvancedWithModules(ingredients, recipes, given, top_n, db, sub_map) ==
    AdvancedResult(WithReferenceData(AdvancedLoop(ingredients, recipes, given), 1, recipes,
                                     user_set(ingredients), db, sub_map),
                   top_n)

\* The file is missing, or json.load or the loop over its items raises
JsonFault(file) == IF file.exists THEN file.malformed ELSE TRUE

\* load_substitutions_from_json(file_path): the table it leaves, given the
\* table there was
load_substitutions_from_json(file, sub_map) ==
    IF JsonFault(file) THEN sub_map
    ELSE LoadSubstitutions(file.items, 1, EmptyDict)

-----------------------------------------------------------------------------
(* The server: the startup loads, later reloads, and scoring requests *)

JsonFile(items) == [exists |-> TRUE, malformed |-> FALSE, items |-> items]
MalformedFile == [exists |-> TRUE, malformed |-> TRUE]

ServeCorpus ==
    <<[title |-> "Omelette", ingredients |-> <<S("Egg"), S("butter"), S("egg ")>>,
       servings |-> 2],
      [title |-> "Rice bowl", ingredients |-> <<S("rice"), S("oil")>>, time |-> 20]>>

RecipesFilesOnDisk == {MissingFile, MalformedFile, JsonFile(ServeCorpus)}

SubstitutionFilesOnDisk ==
    {MissingFile, MalformedFile} \cup {JsonFile(items) : items \in SubstitutionFiles}

ServeUserIngredients == {<<S("Egg"), S("ghee ")>>}

ServeInit ==
    /\ ALL_RECIPES = <<>>
    /\ _NUTRITION_DB = EmptyDict
    /\ _SUB_MAP = EmptyDict
    /\ boot = "recipes"
    /\ last_load = PyNone
    /\ load_pc = "idle"
    /\ load_file = PyNone
    /\ load_row = 0
    /\ temp_db = EmptyDict
    /\ load_prev = EmptyDict
    /\ user_ingredients = <<>>
    /\ preferences = PyNone
    /\ call = [fn |-> "none"]
    /\ computed = <<>>
    /\ result = <<>>
    /\ NormIdle /\ FoldIdle /\ ParseIdle
    /\ NutIdle /\ SubIdle /\ OcrIdle /\ TimeIdle /\ PrefsIdle

\* main.py 21-35: ALL_RECIPES = load_recipes(...); when it raises, the
\* handler empties ALL_RECIPES and the two loaders after it are not called
StartupLoadRecipes ==
    /\ boot = "recipes"
    /\ \E file \in RecipesFilesOnDisk :
        \/ /\ JsonFault(file)
           /\ ALL_RECIPES' = <<>>
           /\ boot' = "serving"
           /\ last_load' = [loader |-> "recipes", kind |-> "fault", startup |-> TRUE]
        \/ /\ ~JsonFault(file)
           /\ ALL_RECIPES' = load_recipes(file.items)
           /\ boot' = "nutrition"
           /\ last_load' = [loader |-> "recipes", kind |-> "loaded", startup |-> TRUE]
    /\ UNCHANGED <<user_ingredients, preferences, call, computed, result, table_vars>>
    /\ UNCHANGED <<load_pc, load_file, load_row, temp_db, load_prev>>
    /\ UNCHANGED <<norm_vars, fold_vars, parse_vars, nut_vars, sub_vars, ocr_vars, tf_vars, pref_vars>>

\* A call of load_nutrition_from_csv, at startup or later
LoadNutrition ==
    /\ boot \in {"nutrition", "serving"}
    /\ \E file \in NutritionFiles :
        /\ _NUTRITION_DB' = load_nutrition_from_csv(file, _NUTRITION_DB)
        /\ last_load' = [loader |-> "nutrition",
                         kind |-> IF NutritionFault(file) THEN "fault" ELSE "loaded",
                         startup |-> boot # "serving"]
    /\ boot' = IF boot = "nutrition" THEN "substitutes" ELSE boot
    /\ UNCHANGED <<rank_vars, _SUB_MAP>>
    /\ UNCHANGED <<load_pc, load_file, load_row, temp_db, load_prev>>
    /\ UNCHANGED <<norm_vars, fold_vars, parse_vars, nut_vars, sub_vars, ocr_vars, tf_vars, pref_vars>>

\* A call of load_substitutions_from_json, at startup or later
LoadSubstitutionsFile ==
    /\ boot \in {"substitutes", "serving"}
    /\ \E file \in SubstitutionFilesOnDisk :
        /\ _SUB_MAP' = load_substitutions_from_json(file, _SUB_MAP)
        /\ last_load' = [loader |-> "substitutes",
                         kind |-> IF JsonFault(file) THEN "fault" ELSE "loaded",
                         startup |-> boot # "serving"]
    /\ boot' = "serving"
    /\ UNCHANGED <<rank_vars, _NUTRITION_DB>>
    /\ UNCHANGED <<load_pc, load_file, load_row, temp_db, load_prev>>
    /\ UNCHANGED <<norm_vars, fold_vars, parse_vars, nut_vars, sub_vars, ocr_vars, tf_vars, pref_vars>>

\* ScoreAdvanced, were matched = sorted(...) a sort of the recipe's own list
ScoreAdvanced_SortsInPlace ==
    /\ boot = "serving"
    /\ \E users \in ServeUserIngredients :
        /\ user_ingredients' = users
        /\ call' = [fn |-> "advanced_suggest_recipes", top_n |-> 10]
        /\ result' = AdvancedWithModules(users, ALL_RECIPES, PyNone, 10, _NUTRITION_DB, _SUB_MAP)
    /\ ALL_RECIPES' = [i \in 1..Len(ALL_RECIPES) |->
                          [ALL_RECIPES[i] EXCEPT !.ingredients = Sorted(Range(@))]]
    /\ UNCHANGED <<preferences, computed, table_vars, load_vars>>
    /\ UNCHANGED <<norm_vars, fold_vars, parse_vars, nut_vars, sub_vars, ocr_vars, tf_vars, pref_vars>>

\* /api/suggest: advanced_suggest_recipes with ALL_RECIPES, top_n = 10 and the
\* nutrition and substitutes modules
ScoreAdvanced ==
    /\ boot = "serving"
    /\ \E users \in ServeUserIngredients :
        /\ user_ingredients' = users
        /\ call' = [fn |-> "advanced_suggest_recipes", top_n |-> 10]
        /\ result' = AdvancedWithModules(users, ALL_RECIPES, PyNone, 10, _NUTRITION_DB, _SUB_MAP)
    /\ UNCHANGED <<ALL_RECIPES, preferences, computed, table_vars, load_vars>>
    /\ UNCHANGED <<norm_vars, fold_vars, parse_vars, nut_vars, sub_vars, ocr_vars, tf_vars, pref_vars>>

\* A call of suggest_recipes with ALL_RECIPES and the default threshold
ScoreSimple ==
    /\ boot = "serving"
    /\ \E users \in ServeUserIngredients :
        /\ user_ingredients' = users
        /\ call' = [fn |-> "suggest_recipes", threshold |-> Rat(3, 5)]
        /\ result' = suggest_recipes(users, ALL_RECIPES, Rat(3, 5))
    /\ UNCHANGED <<ALL_RECIPES, preferences, computed, table_vars, load_vars>>
    /\ UNCHANGED <<norm_vars, fold_vars, parse_vars, nut_vars, sub_vars, ocr_vars, tf_vars, pref_vars>>

ServeNext ==
    StartupLoadRecipes \/ LoadNutrition \/ LoadSubstitutionsFile \/ ScoreAdvanced \/ ScoreSimple

SpecServe == ServeInit /\ [][ServeNext]_vars

\* The last loader call met a missing or malformed file, and its table
TableOfLoader(loader) ==
    CASE loader = "recipes" -> ALL_RECIPES
      [] loader = "nutrition" -> _NUTRITION_DB
      [] loader = "substitutes" -> _SUB_MAP

C14_FaultLeavesTableEmpty ==
    (last_load # PyNone /\ last_load.kind = "fault") =>
        TableOfLoader(last_load.loader) = <<>>

\* A scoring call against an empty corpus returns no match, against an empty
\* nutrition table zero nutrition, against an empty substitution table no
\* substitutes
C14_ScoringAgainstEmpty ==
    (ScoreAdvanced \/ ScoreSimple) =>
        /\ ALL_RECIPES = <<>> => result' = <<>>
        /\ call'.fn = "advanced_suggest_recipes" =>
            \A i \in 1..Len(result') :
                /\ _NUTRITION_DB = EmptyDict => result'[i].nutrition = ZeroTotals
                /\ _SUB_MAP = EmptyDict =>
                      \A miss \in DOMAIN result'[i].substitutes :
                          result'[i].substitutes[miss] = <<>>

C14_EmptyTablesScoreToNothing == [][C14_ScoringAgainstEmpty]_vars

\* C14: a load-time fault of a reference file, at startup or on a later
\* reload that follows a successful load, leaves the corresponding table
\* empty and the process running, and scoring against the empty table yields
\* no matches or zero nutrition.
C14_LoadFaultDegrades ==
    /\ []C14_FaultLeavesTableEmpty
    /\ [](last_load # PyNone => boot \in {"nutrition", "substitutes", "serving"})
    /\ [][C14_ScoringAgainstEmpty]_vars

\* The same for the startup loads only: until the server is serving, a fault
\* leaves the table empty
C14_StartupFaultLeavesTableEmpty ==
    (last_load # PyNone /\ last_load.kind = "fault" /\ last_load.startup) =>
        TableOfLoader(last_load.loader) = <<>>

\* C16: a call of advanced_suggest_recipes or of suggest_recipes leaves the
\* recipe corpus, the nutrition table and the substitution table as they were.
C16_ScoringLeavesReferenceData ==
    [][(ScoreAdvanced \/ ScoreSimple) => UNCHANGED <<ALL_RECIPES, _NUTRITION_DB, _SUB_MAP>>]_vars

\* A scoring call that read all three tables: it returned an entry with
\* nutrition of the nutrition table and substitutes of the substitution table
C16_Witness ==
    /\ call.fn = "advanced_suggest_recipes"
    /\ \E i \in 1..Len(result) :
        /\ result[i].nutrition.calories # RZero
        /\ \E miss \in DOMAIN result[i].substitutes : result[i].substitutes[miss] # <<>>
    /\ Len(ALL_RECIPES) = 2

-----------------------------------------------------------------------------
(* ocr.py: ocr_extract_text, image_to_ingredient_list *)

OCR_UNAVAILABLE ==
    PyStr("OCR libraries not available. Install 'pytesseract' and the Tesseract-OCR engine.")
OCR_FAILED == PyStr("OCR failed to extract any text from the image.")
NO_INGREDIENTS == PyStr("No readable ingredients found in the image text.")

\* ocr_extract_text(image_path): None without pytesseract or when the
\* preprocessing or pytesseract.image_to_string raises, else the str returned
ocr_extract_text(env) ==
    IF ~env.pytesseract THEN PyNone
    ELSE IF env.raises THEN PyNone
    ELSE env.text

\* The part of image_to_ingredient_list after the text is there
IngredientsOrError(ings) ==
    IF ings = <<>> THEN [ingredients |-> <<>>, error |-> NO_INGREDIENTS]
    ELSE [ingredients |-> ings, error |-> PyNone]

\* image_to_ingredient_list(image_path, known_db): the pair returned
image_to_ingredient_list(env, known) ==
    IF ocr_extract_text(env) = PyNone
    THEN (IF ~env.pytesseract THEN [ingredients |-> <<>>, error |-> OCR_UNAVAILABLE]
          ELSE [ingredients |-> <<>>, error |-> OCR_FAILED])
    ELSE IngredientsOrError(parse_text_to_ingredients(ocr_extract_text(env), known).result)

-----------------------------------------------------------------------------
(* Images through OCR *)

MaxOcrChunks == 2

\* What pytesseract.image_to_string returns for an image
OcrTexts == Texts(MaxOcrChunks) \cup {Str(" "), <<"U+000A">>, <<" ", "U+000A", "U+000A">>}

\* pytesseract is not installed; or it is and image_to_string raises, or
\* returns a text
OcrEnvironments ==
    {[pytesseract |-> FALSE], [pytesseract |-> TRUE, raises |-> TRUE]}
    \cup {[pytesseract |-> TRUE, raises |-> FALSE, text |-> PyStr(text)] : text \in OcrTexts}

OcrInit ==
    /\ ocr_pc = "input"
    /\ ocr_env \in OcrEnvironments
    /\ ocr_known \in KnownPool
    /\ ocr_result = PyNone
    /\ EarlierIdle
    /\ TablesIdle /\ NutIdle /\ SubIdle /\ LoadIdle /\ TimeIdle /\ PrefsIdle

\* A call of image_to_ingredient_list
ImageToIngredientList ==
    /\ ocr_pc = "input"
    /\ ocr_result' = image_to_ingredient_list(ocr_env, ocr_known)
    /\ ocr_pc' = "done"
    /\ UNCHANGED <<ocr_env, ocr_known, earlier_vars>>
    /\ UNCHANGED <<table_vars, nut_vars, sub_vars, load_vars, tf_vars, pref_vars>>

SpecOcr == OcrInit /\ [][ImageToIngredientList]_vars

\* The OCR collaborator returned nothing, or an empty string
NoTextExtracted(env) ==
    IF ~env.pytesseract THEN TRUE
    ELSE IF env.raises THEN TRUE
    ELSE env.text.str = <<>>

\* The pair is (non-empty list, None) or (empty list, non-empty message)
WellFormedPair(pair) ==
    \/ pair.ingredients # <<>> /\ pair.error = PyNone
    \/ pair.ingredients = <<>> /\ IsStr(pair.error) /\ pair.error.str # ""

\* C15: image_to_ingredient_list returns (ingredients, None) with ingredients
\* non-empty, or ([], message); when the OCR collaborator extracted no text
\* (returned nothing, or an empty string) the message is the 'no text
\* extracted' one, and when text was extracted but no ingredient recognized it
\* is the distinct 'no ingredients found' one.
C15_NoTextOrNoIngredients ==
    ocr_pc = "done" =>
        /\ WellFormedPair(ocr_result)
        /\ NoTextExtracted(ocr_env) => ocr_result.error \in {OCR_UNAVAILABLE, OCR_FAILED}
        /\ (~NoTextExtracted(ocr_env) /\ ocr_result.ingredients = <<>>) =>
              ocr_result.error = NO_INGREDIENTS

\* The same, where only ocr_extract_text returning None counts as no text
C15_NoneOrNoIngredients ==
    ocr_pc = "done" =>
        /\ WellFormedPair(ocr_result)
        /\ ocr_extract_text(ocr_env) = PyNone => ocr_result.error \in {OCR_UNAVAILABLE, OCR_FAILED}
        /\ (ocr_extract_text(ocr_env) # PyNone /\ ocr_result.ingredients = <<>>) =>
              ocr_result.error = NO_INGREDIENTS

-----------------------------------------------------------------------------
(* The time score over recipe times and max_time preferences *)

MaxMinutes == 3

TimeInit ==
    /\ tf_pc = "input"
    /\ tf_rec_time \in (0 - 2 * MaxMinutes)..(2 * MaxMinutes + 1)
    /\ tf_max_time \in (0 - MaxMinutes)..MaxMinutes
    /\ tf_score = RZero
    /\ EarlierIdle
    /\ TablesIdle /\ NutIdle /\ SubIdle /\ LoadIdle /\ OcrIdle /\ PrefsIdle

\* The time score of advanced_suggest_recipes for a recipe of this time under
\* preferences of this max_time (0: no time, no max_time)
ComputeTimeScore ==
    /\ tf_pc = "input"
    /\ tf_score' = time_score([time |-> tf_rec_time], [max_time |-> tf_max_time])
    /\ tf_pc' = "done"
    /\ UNCHANGED <<tf_rec_time, tf_max_time, earlier_vars>>
    /\ UNCHANGED <<table_vars, nut_vars, sub_vars, load_vars, ocr_vars, pref_vars>>

SpecTime == TimeInit /\ [][ComputeTimeScore]_vars

\* overrun = max(0, recipeTime - maxTime)
Overrun == Max(0, tf_rec_time - tf_max_time)

\* A max_time preference and a recipe time are both there
TimeApplies == tf_max_time # 0 /\ tf_rec_time # 0

\* C18 as stated: the factor is 1.0 without max_time or recipe time, else
\* max(0, 1 - overrun/maxTime); for all integer times it is in [0, 1], is 1.0
\* whenever recipeTime <= maxTime and 0 whenever recipeTime >= 2*maxTime.
C18_TimeFitOverMaxTime ==
    tf_pc = "done" =>
        /\ ~TimeApplies => tf_score = ROne
        /\ TimeApplies => tf_score = RMax(RZero, RSub(ROne, Rat(Overrun, tf_max_time)))
        /\ RLeq(RZero, tf_score) /\ RLeq(tf_score, ROne)
        /\ tf_rec_time <= tf_max_time => tf_score = ROne
        /\ (TimeApplies /\ tf_rec_time >= 2 * tf_max_time) => tf_score = RZero

\* C18, amended: the factor is 1.0 without max_time or recipe time, else
\* max(0, 1 - overrun/max(1, maxTime)), which is max(0, 1 - overrun/maxTime)
\* for maxTime >= 1; for all integer times it is in [0, 1] and is 1.0 whenever
\* recipeTime <= maxTime; it is 0 whenever maxTime >= 1 and recipeTime >=
\* 2*maxTime, and whenever maxTime < 0 and a non-zero recipeTime > maxTime.
C18_TimeFitOverPositiveMaxTime ==
    tf_pc = "done" =>
        /\ ~TimeApplies => tf_score = ROne
        /\ TimeApplies => tf_score = RMax(RZero, RSub(ROne, Rat(Overrun, Max(1, tf_max_time))))
        /\ (TimeApplies /\ tf_max_time >= 1) =>
              tf_score = RMax(RZero, RSub(ROne, Rat(Overrun, tf_max_time)))
        /\ RLeq(RZero, tf_score) /\ RLeq(tf_score, ROne)
        /\ tf_rec_time <= tf_max_time => tf_score = ROne
        /\ (tf_max_time >= 1 /\ tf_rec_time >= 2 * tf_max_time) => tf_score = RZero
        /\ (tf_max_time < 0 /\ tf_rec_time # 0 /\ tf_rec_time > tf_max_time) => tf_score = RZero

\* A recipe over the max_time by less than the max_time: a score strictly
\* between 0 and 1
C18_Witness ==
    /\ tf_pc = "done"
    /\ tf_max_time >= 1
    /\ tf_rec_time > tf_max_time
    /\ tf_rec_time < 2 * tf_max_time
    /\ RLess(RZero, tf_score) /\ RLess(tf_score, ROne)

-----------------------------------------------------------------------------
(* favorites.py: the preferences file, favorites and cooking history *)

\* {"favorites": [], "shopping_list": {}, "cooking_history": []}
DefaultPreferences ==
    [favorites |-> <<>>, shopping_list |-> EmptyDict, cooking_history |-> <<>>]

\* _load_preferences_data(), for the file there is: no file (None), a file
\* that cannot be decoded, a JSON list, or a JSON object
_load_preferences_data(file) ==
    IF file = PyNone THEN DefaultPreferences
    ELSE IF "corrupt" \in DOMAIN file THEN DefaultPreferences
    ELSE IF "list" \in DOMAIN file THEN [DefaultPreferences EXCEPT !.favorites = file.list]
    ELSE file @@ DefaultPreferences

\* [r for r in all_list if r.get("title") != title]
WithoutTitle(all_list, title) == SelectSeq(all_list, LAMBDA r : r.title # title)

\* _save_all_favorites(all_list): the file it writes
_save_all_favorites(file, all_list) ==
    [_load_preferences_data(file) EXCEPT !.favorites = all_list]

\* The entry save_favorite builds (added_on is the time of the call)
FavoriteEntry(recipe, note, rating) ==
    [title |-> recipe.title,
     ingredients |-> Get(recipe, "ingredients", <<>>),
     steps |-> Get(recipe, "steps", <<>>),
     image_url |-> Get(recipe, "image_url", PyNone),
     note |-> note,
     rating |-> rating,
     tags |-> <<>>,
     added_on |-> "utcnow"]

\* FavoritesAfterSave, were the entry appended
FavoritesAfterSave_Appended(all_list, entry) ==
    Append(WithoutTitle(all_list, entry.title), entry)

\* all_list without the entries of the title, and the entry inserted at 0
FavoritesAfterSave(all_list, entry) ==
    <<entry>> \o WithoutTitle(all_list, entry.title)

\* not recipe or not recipe.get("title"): save_favorite raises ValueError
SaveRaises(recipe) == "title" \notin DOMAIN recipe \/ Get(recipe, "title", "") = ""

\* save_favorite(recipe, note, rating): the file it leaves
save_favorite(file, recipe, note, rating) ==
    IF SaveRaises(recipe) THEN file
    ELSE _save_all_favorites(file,
            FavoritesAfterSave(_load_preferences_data(file).favorites,
                               FavoriteEntry(recipe, note, rating)))

\* remove_favorite(title): the file it leaves
remove_favorite(file, title) ==
    IF title = "" THEN file
    ELSE _save_all_favorites(file, WithoutTitle(_load_preferences_data(file).favorites, title))

HISTORY_LIMIT == 50

\* HistoryAfterView, were the list cut before the entry is inserted
HistoryAfterView_CutFirst(history, title) ==
    <<[title |-> title, viewed_on |-> "utcnow"]>>
        \o Slice(WithoutTitle(history, title), HISTORY_LIMIT)

\* history without the entries of the title, the entry inserted at 0, and
\* the first 50 of that (viewed_on is the time of the call)
HistoryAfterView(history, title) ==
    Slice(<<[title |-> title, viewed_on |-> "utcnow"]>> \o WithoutTitle(history, title),
          HISTORY_LIMIT)

\* log_recipe_view(recipe_title): the file it leaves
log_recipe_view(file, title) ==
    IF title = "" THEN file
    ELSE [_load_preferences_data(file) EXCEPT
            !.cooking_history = HistoryAfterView(@, title)]

\* next((r for r in ALL_RECIPES if r['title'] == recipe_title), None)
RECURSIVE FindRecipeFrom(_, _, _)
FindRecipeFrom(recipes, title, i) ==
    IF i > Len(recipes) THEN PyNone
    ELSE IF recipes[i].title = title THEN recipes[i]
    ELSE FindRecipeFrom(recipes, title, i + 1)

FindRecipe(recipes, title) == FindRecipeFrom(recipes, title, 1)

-----------------------------------------------------------------------------
(* Favorites and views of the recipes of a corpus *)

\* The callers view the recipes of the corpus in its order, and come back to
\* the first MaxRepeat of them at any time
MaxRepeat == 1

\* The titles of the corpus that can be viewed next
RepeatTitles == {ALL_RECIPES[i].title : i \in 1..Min(MaxRepeat, Len(ALL_RECIPES))}

RECURSIVE FirstTitleNotIn(_, _, _)
FirstTitleNotIn(recipes, seen, i) ==
    IF i > Len(recipes) THEN {}
    ELSE IF recipes[i].title \notin seen THEN {recipes[i].title}
    ELSE FirstTitleNotIn(recipes, seen, i + 1)

NewTitles == FirstTitleNotIn(ALL_RECIPES, Range(viewed), 1)

\* The titles viewed, once title is viewed: the latest view first
ViewedAfter(title) ==
    IF title = "" THEN viewed ELSE <<title>> \o SelectSeq(viewed, LAMBDA v : v # title)

\* A call of log_recipe_view
LogRecipeView ==
    /\ \E title \in {""} \cup NewTitles :
        /\ prefs_file' = log_recipe_view(prefs_file, title)
        /\ viewed' = ViewedAfter(title)
        /\ last_call' = [fn |-> "log_recipe_view", title |-> title]
    /\ UNCHANGED <<norm_vars, rank_vars, fold_vars, parse_vars>>
    /\ UNCHANGED <<table_vars, nut_vars, sub_vars, load_vars, ocr_vars, tf_vars>>

\* /api/recipe-details/<recipe_title>
RecipeDetails ==
    /\ \E title \in RepeatTitles \cup NewTitles \cup {"No such recipe"} :
        \/ /\ FindRecipe(ALL_RECIPES, title) = PyNone
           /\ last_call' = [fn |-> "api_get_recipe_details", title |-> title, status |-> 404,
                            body |-> [error |-> "Recipe not found"]]
           /\ UNCHANGED <<prefs_file, viewed>>
        \/ /\ FindRecipe(ALL_RECIPES, title) # PyNone
           /\ prefs_file' = log_recipe_view(prefs_file, title)
           /\ viewed' = ViewedAfter(title)
           /\ last_call' = [fn |-> "api_get_recipe_details", title |-> title, status |-> 200,
                            body |-> [recipe |-> title,
                                      detailed_nutrition |->
                                        calculate_recipe_nutrition(
                                            [ingredients |->
                                                PyStrEach(FindRecipe(ALL_RECIPES, title).ingredients, 1),
                                             servings |-> FindRecipe(ALL_RECIPES, title).servings],
                                            _NUTRITION_DB)]]
    /\ UNCHANGED <<norm_vars, rank_vars, fold_vars, parse_vars>>
    /\ UNCHANGED <<table_vars, nut_vars, sub_vars, load_vars, ocr_vars, tf_vars>>

Notes == {PyNone, S("again")}
Ratings == {PyNone, PyInt(5)}

\* A call of save_favorite with a recipe of the corpus, or one without title
SaveFavorite ==
    /\ \E recipe \in Range(ALL_RECIPES) \cup {[ingredients |-> <<>>]}, note \in Notes,
          rating \in Ratings :
        /\ prefs_file' = save_favorite(prefs_file, recipe, note, rating)
        /\ last_call' = [fn |-> "save_favorite", title |-> Get(recipe, "title", ""),
                         note |-> note, rating |-> rating, raised |-> SaveRaises(recipe),
                         existed |-> \E i \in 1..Len(_load_preferences_data(prefs_file).favorites) :
                                        _load_preferences_data(prefs_file).favorites[i].title
                                            = Get(recipe, "title", "")]
    /\ UNCHANGED viewed
    /\ UNCHANGED <<norm_vars, rank_vars, fold_vars, parse_vars>>
    /\ UNCHANGED <<table_vars, nut_vars, sub_vars, load_vars, ocr_vars, tf_vars>>

\* A call of remove_favorite
RemoveFavorite ==
    /\ \E title \in {ALL_RECIPES[i].title : i \in 1..Len(ALL_RECIPES)} \cup {"", "No such recipe"} :
        /\ prefs_file' = remove_favorite(prefs_file, title)
        /\ last_call' = [fn |-> "remove_favorite", title |-> title]
    /\ UNCHANGED viewed
    /\ UNCHANGED <<norm_vars, rank_vars, fold_vars, parse_vars>>
    /\ UNCHANGED <<table_vars, nut_vars, sub_vars, load_vars, ocr_vars, tf_vars>>

\* The preferences file when the server starts: none, one that cannot be
\* decoded, the list of favorites of an earlier format, or an object that
\* holds a shopping list only
StartFiles ==
    {PyNone, [corrupt |-> TRUE],
     [list |-> <<FavoriteEntry([title |-> "Rice bowl"], S("old"), PyNone)>>],
     [shopping_list |-> [rice |-> "1 cup"]]}

FavoritesInit ==
    /\ ALL_RECIPES = load_recipes(ServeCorpus)
    /\ prefs_file \in StartFiles
    /\ last_call = PyNone
    /\ viewed = <<>>
    /\ user_ingredients = <<>>
    /\ preferences = PyNone
    /\ call = [fn |-> "none"]
    /\ computed = <<>>
    /\ result = <<>>
    /\ NormIdle /\ FoldIdle /\ ParseIdle
    /\ TablesIdle /\ NutIdle /\ SubIdle /\ LoadIdle /\ OcrIdle /\ TimeIdle

FavoritesNext == SaveFavorite \/ RemoveFavorite \/ LogRecipeView \/ RecipeDetails

SpecFavorites == FavoritesInit /\ [][FavoritesNext]_vars

\* list_favorites(), list_cooking_history() and the shopping list of the file
list_favorites == _load_preferences_data(prefs_file).favorites
list_cooking_history == _load_preferences_data(prefs_file).cooking_history
StoredShoppingList == _load_preferences_data(prefs_file).shopping_list

OnePerTitle(list) ==
    \A i, j \in 1..Len(list) : list[i].title = list[j].title => i = j

\* A save that did not raise: the title is at position 0 with the note and
\* rating of the call, once, and the other entries are as they were
C19_SaveStep ==
    (SaveFavorite /\ ~last_call'.raised) =>
        /\ list_favorites' # <<>>
        /\ list_favorites'[1].title = last_call'.title
        /\ list_favorites'[1].note = last_call'.note
        /\ list_favorites'[1].rating = last_call'.rating
        /\ \A i \in 2..Len(list_favorites') : list_favorites'[i].title # last_call'.title
        /\ Tail(list_favorites') = WithoutTitle(list_favorites, last_call'.title)

\* A removal: no entry of the title is left, the other entries are as they were
C19_RemoveStep ==
    RemoveFavorite =>
        /\ \A i \in 1..Len(list_favorites') : list_favorites'[i].title # last_call'.title
        /\ list_favorites' = WithoutTitle(list_favorites, last_call'.title)

\* Neither touches the cooking history or the shopping list
C19_OtherFieldsStep ==
    (SaveFavorite \/ RemoveFavorite) =>
        /\ list_cooking_history' = list_cooking_history
        /\ StoredShoppingList' = StoredShoppingList

MaxNewTitles == 2

TitlePool ==
    <<"T01", "T02", "T03", "T04", "T05", "T06", "T07", "T08", "T09", "T10", "T11", "T12",
      "T13", "T14", "T15", "T16", "T17", "T18", "T19", "T20", "T21", "T22", "T23", "T24",
      "T25", "T26", "T27", "T28", "T29", "T30", "T31", "T32", "T33", "T34", "T35", "T36",
      "T37", "T38", "T39", "T40", "T41", "T42", "T43", "T44", "T45", "T46", "T47", "T48",
      "T49", "T50", "T51", "T52", "T53", "T54", "T55", "T56", "T57", "T58", "T59", "T60">>

RECURSIVE TitledRecords(_)
TitledRecords(n) ==
    IF n = 0 THEN <<>> ELSE Append(TitledRecords(n - 1), [title |-> TitlePool[n]])

HistoryInit ==
    /\ ALL_RECIPES = load_recipes(TitledRecords(HISTORY_LIMIT + MaxNewTitles))
    /\ prefs_file = PyNone
    /\ last_call = PyNone
    /\ viewed = <<>>
    /\ user_ingredients = <<>>
    /\ preferences = PyNone
    /\ call = [fn |-> "none"]
    /\ computed = <<>>
    /\ result = <<>>
    /\ NormIdle /\ FoldIdle /\ ParseIdle
    /\ TablesIdle /\ NutIdle /\ SubIdle /\ LoadIdle /\ OcrIdle /\ TimeIdle

HistoryNext == LogRecipeView \/ RecipeDetails

SpecHistory == HistoryInit /\ [][HistoryNext]_vars

HistoryTitles == [i \in 1..Len(list_cooking_history) |-> list_cooking_history[i].title]

\* The history is the titles viewed, the latest view first, as far as the
\* history goes
MostRecentFirst ==
    /\ Len(HistoryTitles) <= Len(viewed)
    /\ HistoryTitles = SubSeq(viewed, 1, Len(HistoryTitles))

\* A view of a title the full history does not hold drops its last entry
C20_DropStep ==
    /\ last_call'.fn \in {"log_recipe_view", "api_get_recipe_details"}
    /\ Len(list_cooking_history) = HISTORY_LIMIT
    /\ viewed' # viewed
    /\ viewed'[1] \notin Range(HistoryTitles)
    => /\ Len(HistoryTitles') = HISTORY_LIMIT
       /\ HistoryTitles' = <<viewed'[1]>> \o SubSeq(HistoryTitles, 1, HISTORY_LIMIT - 1)

\* A call with an empty title leaves the file alone
C20_EmptyTitleStep ==
    (last_call'.fn = "log_recipe_view" /\ last_call'.title = "") => UNCHANGED prefs_file

\* Details of a title no recipe has: 'not found', and the file left alone
C20_UnknownTitleStep ==
    (/\ last_call'.fn = "api_get_recipe_details"
     /\ FindRecipe(ALL_RECIPES, last_call'.title) = PyNone) =>
        /\ last_call'.status = 404
        /\ last_call'.body = [error |-> "Recipe not found"]
        /\ UNCHANGED prefs_file

\* C20: through any sequence of log_recipe_view calls the cooking history
\* has at most 50 entries and at most one per title, and lists the titles
\* from the most recently viewed to the least recently viewed; a view of a
\* title the full history does not hold drops the least recently viewed
\* entry; a call with an empty title changes nothing; and details of an
\* unknown title are answered 'not found' without a view being logged
C20_CookingHistory ==
    /\ [](Len(list_cooking_history) <= HISTORY_LIMIT)
    /\ [](OnePerTitle(list_cooking_history))
    /\ []MostRecentFirst
    /\ [][C20_DropStep /\ C20_EmptyTitleStep /\ C20_UnknownTitleStep]_vars

\* More titles than the history holds were viewed, the first of them again
\* in between, so that the title dropped is not the first one viewed
C20_Witness ==
    /\ Len(viewed) > HISTORY_LIMIT
    /\ Len(list_cooking_history) = HISTORY_LIMIT
    /\ viewed[HISTORY_LIMIT + 1] # ALL_RECIPES[1].title
    /\ \E i \in 1..HISTORY_LIMIT : HistoryTitles[i] = ALL_RECIPES[1].title

=============================================================================
